---- MODULE Spec2Model ----
(***************************************************************************)
(* chipsec/hal/spi.py: the SPI hardware-sequencing driver.  One behaviour  *)
(* is one public call of the driver (read_spi, write_spi, erase_spi_block, *)
(* get_SPI_JEDEC_ID, get_SPI_SFDP) against the flash controller.  Every MMIO access of   *)
(* the driver is one step; the controller runs beside it and finishes a    *)
(* cycle whenever it likes, or never.                                      *)
(***************************************************************************)
EXTENDS Integers, Sequences, FiniteSets, TLC

\* ------------------------------------------------------------ constants
\* chipsec.cfg.common (Cfg.*): HSFS status bits, HSFC cycle codes, FADDR mask
PCH_RCBA_SPI_HSFSTS_FDONE == 1
PCH_RCBA_SPI_HSFSTS_FCERR == 2
PCH_RCBA_SPI_HSFSTS_AEL == 4
PCH_RCBA_SPI_HSFSTS_SCIP == 32
PCH_RCBA_SPI_HSFCTL_FCYCLE_READ == 0
PCH_RCBA_SPI_HSFCTL_FCYCLE_WRITE == 2
PCH_RCBA_SPI_HSFCTL_FCYCLE_ERASE == 3
PCH_RCBA_SPI_HSFCTL_FCYCLE_SFDP == 5
PCH_RCBA_SPI_HSFCTL_FCYCLE_JEDEC == 6
PCH_RCBA_SPI_HSFCTL_FCYCLE_FGO == 1
PCH_RCBA_SPI_FADDR_MASK == 134217727

SPI_READ_WRITE_MAX_DBC == 64
SFDP_HEADER == 1346651731
SPI_READ_WRITE_DEF_DBC == 4
\* range(1000) of the spin loop of _wait_SPI_flash_cycle_done
SPIN_POLLS == 1000
\* dbc = 4 of write_spi
WRITE_DBC == 4

\* ------------------------------------------------------------ bit helpers
RECURSIVE BitAnd(_, _)
\* Python's a & b on non-negative integers
BitAnd(a, b) ==
    IF a = 0 \/ b = 0 THEN 0
    ELSE 2 * BitAnd(a \div 2, b \div 2) + (IF a % 2 = 1 /\ b % 2 = 1 THEN 1 ELSE 0)

RECURSIVE BitOr(_, _)
\* Python's a | b on non-negative integers
BitOr(a, b) ==
    IF a = 0 THEN b
    ELSE IF b = 0 THEN a
    ELSE 2 * BitOr(a \div 2, b \div 2) + (IF a % 2 = 1 \/ b % 2 = 1 THEN 1 ELSE 0)

\* Python's a << k and a >> k
Shl(a, k) == a * (2 ^ k)
Shr(a, k) == a \div (2 ^ k)

\* a with the bits of m cleared
BitClear(a, m) == a - BitAnd(a, m)

\* A 32-bit register value is held as its four bytes, least significant
\* first (TLC's integers end at 2^31 - 1).
\* (d >> (8*j)) & 0xff
ByteAt(d, j) == d[j + 1]
\* the dword of a non-negative integer below 2^31
DwordOf(x) == <<x % 256, Shr(x, 8) % 256, Shr(x, 16) % 256, Shr(x, 24) % 256>>

\* aggregated SPI flash commands
HSFCTL_READ_CYCLE ==
    BitOr(Shl(PCH_RCBA_SPI_HSFCTL_FCYCLE_READ, 1), PCH_RCBA_SPI_HSFCTL_FCYCLE_FGO)
HSFCTL_WRITE_CYCLE ==
    BitOr(Shl(PCH_RCBA_SPI_HSFCTL_FCYCLE_WRITE, 1), PCH_RCBA_SPI_HSFCTL_FCYCLE_FGO)
HSFCTL_ERASE_CYCLE ==
    BitOr(Shl(PCH_RCBA_SPI_HSFCTL_FCYCLE_ERASE, 1), PCH_RCBA_SPI_HSFCTL_FCYCLE_FGO)
HSFCTL_JEDEC_CYCLE ==
    BitOr(Shl(PCH_RCBA_SPI_HSFCTL_FCYCLE_JEDEC, 1), PCH_RCBA_SPI_HSFCTL_FCYCLE_FGO)
HSFCTL_SFDP_CYCLE ==
    BitOr(Shl(PCH_RCBA_SPI_HSFCTL_FCYCLE_SFDP, 1), PCH_RCBA_SPI_HSFCTL_FCYCLE_FGO)

\* mutant: FDONE is left out of the clear mask
HSFSTS_CLEAR_NoFdone == BitOr(PCH_RCBA_SPI_HSFSTS_AEL, PCH_RCBA_SPI_HSFSTS_FCERR)

HSFSTS_CLEAR ==
    BitOr(PCH_RCBA_SPI_HSFSTS_AEL,
          BitOr(PCH_RCBA_SPI_HSFSTS_FCERR, PCH_RCBA_SPI_HSFSTS_FDONE))

\* ------------------------------------------------------------ bounds and inputs
\* read_spi lengths below 64 go from 0 to MaxSmallRead
MaxSmallRead == 6
\* write_spi buffers have 0..MaxWriteLen bytes
MaxWriteLen == 5
\* lengths of read_spi that use 64-byte cycles
LargeReadLens == {64, 70, 128}
ReadLens == (0 .. MaxSmallRead) \cup LargeReadLens
FlaSet == {0, 4096}
\* calls whose second cycle starts past the 27 bits of FADDR: read_spi(0x7FFFFC0, 128),
\* read_spi(0x7FFFFFC, 6) and write_spi(0x7FFFFFC, AA BB CC DD EE)
WrapReads == {<<134217664, 128>>, <<134217724, 6>>}
WrapWrites == {<<134217724, <<170, 187, 204, 221, 238>>>>}
\* erase_spi_block addresses: also 0x10000, and 0x8010000 with a bit above FADDR's
EraseFlas == FlaSet \cup {65536, 134283264}
\* the bytes a caller writes: AA BB CC DD EE, then a ramp
WriteByte(k) == IF k <= 5 THEN 153 + 17 * k ELSE (k * 29) % 256
WriteBufs == { [k \in 1 .. len |-> WriteByte(k)] : len \in 0 .. MaxWriteLen }

\* the content of the flash part: the byte at address a
FlashByte(a) == (a * 7 + 3) % 256
\* The SFDP data of a flash part: its signature dword, the number of parameter
\* headers and the length of the first parameter table in dwords.
NoSfdpPart == [sig |-> <<255, 255, 255, 255>>, nph |-> 1, p1len |-> 0]
SfdpPart(nph, p1len) == [sig |-> <<83, 70, 68, 80>>, nph |-> nph, p1len |-> p1len]
\* The two components of the flash a call meets
SfdpFlashes ==
    {<<SfdpPart(1, 3), NoSfdpPart>>, <<SfdpPart(2, 1), SfdpPart(2, 1)>>,
     <<NoSfdpPart, SfdpPart(2, 1)>>, <<SfdpPart(2, 1), SfdpPart(1, 3)>>,
     <<SfdpPart(8, 0), NoSfdpPart>>, <<NoSfdpPart, SfdpPart(1, 255)>>}
\* sfdp.xml: -1 when check_def_file fails, else the number of children of its root
XmlCounts == {-1, 2, 256}

\* JEDEC ids a part may answer with (FDATA0 after a JEDEC cycle):
\* 0x001720C2 and 0xFF1840EF
JedecIds == {<<194, 32, 23, 0>>, <<239, 64, 24, 255>>}


\* ------------------------------------------------------------ state
VARIABLES
    pc,         \* the driver's position
    op,         \* the public call [name, fla, n, data] and the catalog it runs
                \* with (fcycle: HSFS has a field FCYCLE)
    result,     \* "running", "raised" (SpiRuntimeError), "None" or "returned"
    phase,      \* which cycle of the call is out: "chunk", "rem", "erase", "jedec"
    i,          \* chunk index of read_spi / write_spi
    fdata_idx,  \* FDATA index of the read-back loops
    buf,        \* read_spi's output bytes
    ok,         \* write_ok / erase_ok
    jid,        \* id of get_SPI_JEDEC_ID
    sf,         \* get_SPI_SFDP's locals: [component, offset, nph, p1len, count, clr]
    cyc,        \* arguments of _send_spi_cycle: [cmd, dbc, fla]
    waitRet,    \* who called _wait_SPI_flash_cycle_done: "preflight" or "send"
    polls,      \* HSFS polls made so far by the polling of the current wait
    sleeps,     \* time.sleep(0.1) calls made so far by that polling
    hsfsts,     \* the last HSFS byte the driver read
    cycle_done, \* _wait_SPI_flash_cycle_done's local and return value
    hsfs,       \* controller: low byte of HSFS
    fdv,        \* controller: the field HSFS.FDV, 0 or 1
    faddr,      \* controller: FADDR
    hsfc,       \* controller: byte 0 of HSFC
    dbcr,       \* controller: byte 1 of HSFC (DBC)
    fdata,      \* controller: FDATA0..FDATA15
    inflight,   \* controller: the cycle it is executing, latched at FGO
    ptinx,      \* controller: BIOS_PTINX
    wlog,       \* history: the register writes of this call, in order
    issued,     \* history: the cycles committed by this call, as the registers held them
    rd,         \* history: the FDATA dwords the call read back
    idleSeen,   \* history: the current wait saw SCIP = 0
    cleared,    \* history: the current wait wrote HSFSTS_CLEAR
    nfail,      \* history: the cycles of this call that _send_spi_cycle reported failed
    rets,       \* history: what _send_spi_cycle returned for each cycle of this call
    cs,         \* chipset: the registers the catalog defines and their values
    rg,         \* get_SPI_region: its argument, locals and return value
    csrd        \* history: the registers read by name through the catalog

drv == <<pc, op, sf, rg, result, phase, i, fdata_idx, buf, ok, jid, cyc, waitRet, polls,
         sleeps, hsfsts, cycle_done>>
hw == <<hsfs, fdv, faddr, hsfc, dbcr, fdata, inflight, ptinx, cs>>
hist == <<wlog, issued, rd, idleSeen, cleared, nfail, rets, csrd>>
vars == <<drv, hw, hist>>

NoCycle == [cmd |-> 0, dbc |-> 0, addr |-> 0]
NoOp == [name |-> "none", fla |-> 0, n |-> 0, data |-> <<>>, fcycle |-> TRUE,
         parts |-> <<>>, xml |-> 0]
NoSfdp == [component |-> 0, offset |-> 0, nph |-> 0, p1len |-> 0, count |-> 0, clr |-> 0]
\* the region ids, the keys of SPI_REGION
RegionIds == 0 .. 11
\* a catalog without FREG registers
NoCatalog == [defined |-> {}, freg |-> [r \in RegionIds |-> 0],
              pr_defined |-> {}, pr |-> [j \in 0 .. 5 |-> <<0, 0, 0, 0>>],
              ble |-> 0, bioswe |-> 0, smmbwp |-> 0, smi |-> FALSE, smi_pending |-> FALSE]
NoRegion == [id |-> 0, freg |-> 0, range_base |-> 0, range_limit |-> 0, ret |-> <<>>,
             all_regions |-> TRUE, r |-> 0, spi_regions |-> <<>>]
\* the DBC byte holds what an earlier operation left: here 0x3F
DbcReset == 63
\* FDATA holds whatever an earlier operation left: here FFFFFFFF everywhere
FdataReset == [j \in 0 .. 15 |-> <<255, 255, 255, 255>>]

Busy(h) == BitAnd(h, PCH_RCBA_SPI_HSFSTS_SCIP) # 0

\* HSFS bytes the controller can show when a call starts: idle with any
\* stale sticky bits, or still executing an earlier cycle
InitHsfs ==
    {0, PCH_RCBA_SPI_HSFSTS_FDONE,
     BitOr(PCH_RCBA_SPI_HSFSTS_FDONE, PCH_RCBA_SPI_HSFSTS_FCERR),
     PCH_RCBA_SPI_HSFSTS_AEL, PCH_RCBA_SPI_HSFSTS_SCIP}

Init ==
    /\ pc = "idle" /\ op = NoOp /\ result = "running" /\ phase = "none"
    /\ i = 0 /\ fdata_idx = 0 /\ buf = <<>> /\ ok = TRUE /\ jid = 0
    /\ cyc = NoCycle /\ waitRet = "none" /\ polls = 0 /\ sleeps = 0
    /\ hsfsts = 0 /\ cycle_done = FALSE
    /\ hsfs \in InitHsfs /\ fdv \in {0, 1}
    /\ faddr = 0 /\ hsfc = 0 /\ dbcr = DbcReset /\ fdata = FdataReset /\ ptinx = 0
    /\ sf = NoSfdp
    /\ inflight = [cmd |-> HSFCTL_ERASE_CYCLE, dbc |-> 0, addr |-> 0]
    /\ wlog = <<>> /\ issued = <<>> /\ rd = <<>>
    /\ idleSeen = FALSE /\ cleared = FALSE /\ nfail = 0 /\ rets = <<>>
    /\ cs = NoCatalog /\ rg = NoRegion /\ csrd = <<>>

\* ------------------------------------------------------------ the controller
\* byte b of dword j of FDATA after a read of count bytes at addr: the flash
\* byte when it is one of the count bytes, the register's old byte otherwise
LoadByte(old, addr, count, j, b) ==
    IF 4 * j + b < count THEN FlashByte(addr + 4 * j + b)
    ELSE ByteAt(old[j], b)

LoadDword(old, addr, count, j) == [b \in 1 .. 4 |-> LoadByte(old, addr, count, j, b - 1)]

\* FDATA after a READ cycle of dbc+1 bytes at addr
LoadFdata(old, addr, dbc) ==
    [j \in 0 .. 15 |-> IF 4 * j < dbc + 1 THEN LoadDword(old, addr, dbc + 1, j)
                       ELSE old[j]]

\* dword j of the SFDP data of component c: the signature, the version dword
\* with the number of parameter headers minus 1 in byte 2, then two dwords for
\* each parameter header, the table length in byte 3 of the first
SfdpDword(parts, c, j) ==
    IF j = 0 THEN parts[c + 1].sig
    ELSE IF j = 1 THEN <<6, 1, parts[c + 1].nph - 1, 255>>
    ELSE IF j = 2 THEN <<0, 6, 1, parts[c + 1].p1len>>
    ELSE <<j, 0, 1, 2>>

\* BIOS_PTDATA for the index in BIOS_PTINX: bit 14 is the component, bits
\* 13:12 the stratum (0 header, 1 parameter headers, 2 first table), bits 11:0
\* the byte offset
PtData(parts, inx) ==
    LET c == Shr(inx, 14) % 2
        stratum == Shr(inx, 12) % 4
        off == inx % 4096
    IN  IF stratum = 0 THEN SfdpDword(parts, c, off \div 4)
        ELSE IF stratum = 1 THEN SfdpDword(parts, c, 2 + off \div 4)
        ELSE <<off % 256, 16, 32, 48>>

\* A write to a cycle register while a cycle runs is flagged with FCERR.
HwRegWrite(h) == IF Busy(h) THEN BitOr(h, PCH_RCBA_SPI_HSFSTS_FCERR) ELSE h

\* the write-one-to-clear bits of HSFS: FDONE, FCERR, AEL
HwW1cBits == 7
\* HSFS after the driver writes byte v to it: FDONE, FCERR, AEL are write-one-to-clear
HwWriteHsfs(h, v) == BitClear(h, BitAnd(v, HwW1cBits))

\* The controller finishes the cycle it runs: SCIP falls, FDONE rises, and
\* with err the cycle is flagged FCERR and transfers nothing.
HwComplete ==
    /\ Busy(hsfs)
    /\ \E err \in BOOLEAN :
         /\ hsfs' = BitOr(BitClear(hsfs, PCH_RCBA_SPI_HSFSTS_SCIP),
                          IF err THEN BitOr(PCH_RCBA_SPI_HSFSTS_FDONE,
                                            PCH_RCBA_SPI_HSFSTS_FCERR)
                          ELSE PCH_RCBA_SPI_HSFSTS_FDONE)
         /\ IF ~err /\ inflight.cmd = HSFCTL_READ_CYCLE
            THEN fdata' = LoadFdata(fdata, inflight.addr, inflight.dbc)
            ELSE IF ~err /\ inflight.cmd = HSFCTL_JEDEC_CYCLE
            THEN \E id \in JedecIds : fdata' = [fdata EXCEPT ![0] = id]
            ELSE IF ~err /\ inflight.cmd = HSFCTL_SFDP_CYCLE
            THEN fdata' = [j \in 0 .. 15 |-> SfdpDword(op.parts, Shr(ptinx, 14) % 2, j)]
            ELSE fdata' = fdata
    /\ inflight' = NoCycle
    /\ UNCHANGED <<fdv, ptinx, faddr, hsfc, dbcr, drv, hist,
                   cs>>

\* A direct access of another agent violates a protection: AEL is logged.
\* An AEL logged at any other moment is wiped by the next HSFSTS_CLEAR before
\* the driver tests it (or is one of the InitHsfs), so only the access errors
\* that land between the clear and the re-read are kept.
HwAccessError ==
    /\ BitAnd(hsfs, PCH_RCBA_SPI_HSFSTS_AEL) = 0
    /\ pc = "wait_reread"
    /\ hsfs' = BitOr(hsfs, PCH_RCBA_SPI_HSFSTS_AEL)
    /\ UNCHANGED <<fdv, ptinx, faddr, hsfc, dbcr, fdata, inflight, drv, hist,
                   cs>>


\* ------------------------------------------------------------ _wait_SPI_flash_cycle_done
\* cycle_done = not (hsfsts & SCIP)
ScipClear(v) == BitAnd(v, PCH_RCBA_SPI_HSFSTS_SCIP) = 0

\* mutant: only FCERR is tested after the clear
NoErrorBits_OnlyFcerr(v) == ~(BitAnd(v, PCH_RCBA_SPI_HSFSTS_FCERR) # 0)

\* cycle_done = not ((hsfsts & AEL) or (hsfsts & FCERR))
NoErrorBits(v) ==
    ~(BitAnd(v, PCH_RCBA_SPI_HSFSTS_AEL) # 0 \/ BitAnd(v, PCH_RCBA_SPI_HSFSTS_FCERR) # 0)

\* mutant: the loop bound is off by one
SpinAgain_OneMore(p) == p <= SPIN_POLLS

\* the spin loop goes on after a busy poll while range(1000) has values left
SpinAgain(p) == p < SPIN_POLLS

\* where a wait returns to
WaitReturnPc == IF waitRet = "preflight" THEN "preflight_ret" ELSE "cycle_ret"

\* entering the wait: its locals and the history of this wait start afresh
EnterWait(who) ==
    /\ pc' = "wait_spin" /\ waitRet' = who
    /\ polls' = 0 /\ sleeps' = 0
    /\ idleSeen' = FALSE /\ cleared' = FALSE

\* one iteration of `for i in range(1000)`: read HSFS, break when SCIP = 0
\* (polls and sleeps are dead once the polling is over, and go back to 0)
WaitSpinPoll ==
    /\ pc = "wait_spin"
    /\ hsfsts' = hsfs
    /\ cycle_done' = ScipClear(hsfs)
    /\ idleSeen' = ~Busy(hsfs)
    /\ IF ScipClear(hsfs)
       THEN pc' = "wait_clear" /\ polls' = 0
       ELSE /\ polls' = polls + 1
            /\ pc' = IF SpinAgain(polls + 1) THEN "wait_spin" ELSE "wait_sleep"
    /\ UNCHANGED <<op, sf, result, phase, i, fdata_idx, buf, ok, jid, cyc, waitRet, sleeps,
                   hw, wlog, issued, rd, cleared, nfail,
                   rets, rg, csrd>>

\* `if not cycle_done: time.sleep(0.1)`
WaitSleep ==
    /\ pc = "wait_sleep"
    /\ sleeps' = sleeps + 1
    /\ pc' = "wait_last"
    /\ UNCHANGED <<op, sf, result, phase, i, fdata_idx, buf, ok, jid, cyc, waitRet, polls,
                   hsfsts, cycle_done, hw, hist, rg>>

\* the poll after the sleep; still busy: return False without clearing
WaitLastPoll ==
    /\ pc = "wait_last"
    /\ hsfsts' = hsfs
    /\ polls' = 0 /\ sleeps' = 0
    /\ cycle_done' = ScipClear(hsfs)
    /\ idleSeen' = ~Busy(hsfs)
    /\ pc' = IF ScipClear(hsfs) THEN "wait_clear" ELSE WaitReturnPc
    /\ nfail' = IF waitRet = "send" /\ ~cycle_done' THEN nfail + 1 ELSE nfail
    /\ rets' = IF waitRet = "send" /\ ~cycle_done' THEN Append(rets, FALSE) ELSE rets
    /\ UNCHANGED <<op, sf, result, phase, i, fdata_idx, buf, ok, jid, cyc, waitRet,
                   hw, wlog, issued, rd, cleared, rg, csrd>>

\* `if cycle_done: spi_reg_write(hsfs_off, HSFSTS_CLEAR, 1)`
WaitClear ==
    /\ pc = "wait_clear"
    /\ hsfs' = HwWriteHsfs(hsfs, HSFSTS_CLEAR)
    /\ wlog' = Append(wlog, <<"HSFS", HSFSTS_CLEAR>>)
    /\ cleared' = TRUE
    /\ pc' = "wait_reread"
    /\ UNCHANGED <<op, sf, result, phase, i, fdata_idx, buf, ok, jid, cyc, waitRet, polls,
                   sleeps, hsfsts, cycle_done, fdv, ptinx, faddr, hsfc, dbcr, fdata, inflight,
                   issued, rd, idleSeen, nfail,
                   rets, rg, cs, csrd>>

\* re-read HSFS, cycle_done = no AEL and no FCERR; return cycle_done
WaitReread ==
    /\ pc = "wait_reread"
    /\ hsfsts' = hsfs
    /\ cycle_done' = NoErrorBits(hsfs)
    /\ pc' = WaitReturnPc
    /\ nfail' = IF waitRet = "send" /\ ~cycle_done' THEN nfail + 1 ELSE nfail
    /\ rets' = IF waitRet = "send" THEN Append(rets, cycle_done') ELSE rets
    /\ UNCHANGED <<op, sf, result, phase, i, fdata_idx, buf, ok, jid, cyc, waitRet, polls,
                   sleeps, hw, wlog, issued, rd, idleSeen, cleared, rg, csrd>>

\* ------------------------------------------------------------ _send_spi_cycle
\* the caller passes (cmd, dbc, fla)
EnterSend(cmd, dbc, fla, ph) ==
    /\ cyc' = [cmd |-> cmd, dbc |-> dbc, fla |-> fla]
    /\ phase' = ph
    /\ pc' = "send_faddr"

\* mutant: the DBC byte is written for every command
WritesDbc_Always(cmd) == TRUE

\* the DBC byte is written for every command but ERASE
WritesDbc(cmd) == HSFCTL_ERASE_CYCLE # cmd

\* mutant: the address is written as given
FaddrValue_Unmasked(spi_fla) == spi_fla

\* spi_fla & Cfg.PCH_RCBA_SPI_FADDR_MASK
FaddrValue(spi_fla) == BitAnd(spi_fla, PCH_RCBA_SPI_FADDR_MASK)

\* mutant: the status bits are cleared at the head of every cycle
SendFaddr_ClearFirst ==
    /\ pc = "send_faddr"
    /\ faddr' = BitAnd(cyc.fla, PCH_RCBA_SPI_FADDR_MASK)
    /\ hsfs' = HwRegWrite(HwWriteHsfs(hsfs, HSFSTS_CLEAR))
    /\ wlog' = wlog \o <<<<"HSFS", HSFSTS_CLEAR>>,
                          <<"FADDR", BitAnd(cyc.fla, PCH_RCBA_SPI_FADDR_MASK)>>>>
    /\ pc' = "send_dbc"
    /\ UNCHANGED <<op, sf, result, phase, i, fdata_idx, buf, ok, jid, cyc, waitRet, polls,
                   sleeps, hsfsts, cycle_done, fdv, ptinx, hsfc, dbcr, fdata, inflight,
                   issued, rd, idleSeen, cleared, nfail,
                   rets, rg, cs, csrd>>

\* spi_reg_write(faddr_off, spi_fla & FADDR_MASK)
SendFaddr ==
    /\ pc = "send_faddr"
    /\ faddr' = FaddrValue(cyc.fla)
    /\ hsfs' = HwRegWrite(hsfs)
    /\ wlog' = Append(wlog, <<"FADDR", FaddrValue(cyc.fla)>>)
    /\ pc' = "send_dbc"
    /\ UNCHANGED <<op, sf, result, phase, i, fdata_idx, buf, ok, jid, cyc, waitRet, polls,
                   sleeps, hsfsts, cycle_done, fdv, ptinx, hsfc, dbcr, fdata, inflight,
                   issued, rd, idleSeen, cleared, nfail,
                   rets, rg, cs, csrd>>

\* mutant: the DBC byte is not written on its own (left to the command write)
SendDbc_Skipped ==
    /\ pc = "send_dbc"
    /\ pc' = "send_cmd"
    /\ UNCHANGED <<op, sf, result, phase, i, fdata_idx, buf, ok, jid, cyc, waitRet, polls,
                   sleeps, hsfsts, cycle_done, hw, hist, rg>>

\* `if HSFCTL_ERASE_CYCLE != cmd: spi_reg_write(hsfc_off + 1, dbc, 1)`
SendDbc ==
    /\ pc = "send_dbc"
    /\ IF WritesDbc(cyc.cmd)
       THEN /\ dbcr' = cyc.dbc
            /\ hsfs' = HwRegWrite(hsfs)
            /\ wlog' = Append(wlog, <<"DBC", cyc.dbc>>)
       ELSE UNCHANGED <<dbcr, hsfs, wlog>>
    /\ pc' = "send_cmd"
    /\ UNCHANGED <<op, sf, result, phase, i, fdata_idx, buf, ok, jid, cyc, waitRet, polls,
                   sleeps, hsfsts, cycle_done, fdv, ptinx, faddr, hsfc, fdata, inflight,
                   issued, rd, idleSeen, cleared, nfail,
                   rets, rg, cs, csrd>>

\* mutant: the command is written and the caller goes on without the wait
SendCmd_NoWait ==
    /\ pc = "send_cmd"
    /\ hsfc' = cyc.cmd
    /\ IF Busy(hsfs)
       THEN /\ hsfs' = HwRegWrite(hsfs)
            /\ UNCHANGED inflight
       ELSE /\ hsfs' = BitOr(hsfs, PCH_RCBA_SPI_HSFSTS_SCIP)
            /\ inflight' = [cmd |-> cyc.cmd, dbc |-> dbcr, addr |-> faddr]
    /\ wlog' = Append(wlog, <<"HSFC", cyc.cmd>>)
    /\ issued' = Append(issued, [cmd |-> cyc.cmd, dbc |-> dbcr, addr |-> faddr])
    /\ pc' = "cycle_ret" /\ cycle_done' = TRUE /\ waitRet' = "send"
    /\ UNCHANGED <<op, sf, result, phase, i, fdata_idx, buf, ok, jid, cyc, hsfsts, polls,
                   sleeps, fdv, ptinx, faddr, dbcr, fdata, rd, idleSeen, cleared, nfail,
                   rets, rg, cs, csrd>>

\* spi_reg_write(hsfc_off, cmd, 1): FGO starts the cycle on an idle controller;
\* a busy one goes on with its cycle and flags FCERR.  Then the wait begins.
SendCmd ==
    /\ pc = "send_cmd"
    /\ hsfc' = cyc.cmd
    /\ IF Busy(hsfs)
       THEN /\ hsfs' = HwRegWrite(hsfs)
            /\ UNCHANGED inflight
       ELSE /\ hsfs' = BitOr(hsfs, PCH_RCBA_SPI_HSFSTS_SCIP)
            /\ inflight' = [cmd |-> cyc.cmd, dbc |-> dbcr, addr |-> faddr]
    /\ wlog' = Append(wlog, <<"HSFC", cyc.cmd>>)
    /\ issued' = Append(issued, [cmd |-> cyc.cmd, dbc |-> dbcr, addr |-> faddr])
    /\ EnterWait("send")
    /\ UNCHANGED <<op, sf, result, phase, i, fdata_idx, buf, ok, jid, cyc, hsfsts, cycle_done,
                   fdv, ptinx, faddr, dbcr, fdata, rd, nfail,
                   rets, rg, cs, csrd>>

\* ------------------------------------------------------------ check_hardware_sequencing
\* the call is over
Finish(res) == pc' = "done" /\ result' = res

\* what follows the sequencing check in each public operation
AfterCheck ==
    IF op.name \in {"jedec", "jedec_decoded"}
    THEN /\ EnterSend(HSFCTL_JEDEC_CYCLE, 4, 0, "jedec")
         /\ UNCHANGED <<waitRet, polls, sleeps, idleSeen, cleared, result>>
    ELSE IF op.name = "sfdp"
    THEN /\ pc' = "sfdp_clr"
         /\ UNCHANGED <<cyc, phase, waitRet, polls, sleeps, idleSeen, cleared, result>>
    ELSE /\ EnterWait("preflight")
         /\ UNCHANGED <<cyc, phase, result>>

\* mutant: the test of FDV is inverted
FdvIsZero_Inverted(v) == v # 0

\* `if fdv == 0`
FdvIsZero(v) == v = 0

\* fdv = read_register_field('HSFS', 'FDV'); raise SpiRuntimeError when 0
CheckHardwareSequencing ==
    /\ pc = "check_fdv"
    /\ IF FdvIsZero(fdv)
       THEN /\ Finish("raised")
            /\ UNCHANGED <<cyc, phase, waitRet, polls, sleeps, idleSeen, cleared>>
       ELSE AfterCheck
    /\ csrd' = Append(csrd, <<"read", "HSFS.FDV">>)
    /\ UNCHANGED <<op, sf, i, fdata_idx, buf, ok, jid, hsfsts, cycle_done, hw, wlog, issued,
                   rd, nfail,
                   rets, rg>>

\* ------------------------------------------------------------ the public calls
Call(name, fla, n, data, fcycle) ==
    /\ pc = "idle"
    /\ op' = [name |-> name, fla |-> fla, n |-> n, data |-> data, fcycle |-> fcycle,
              parts |-> <<>>, xml |-> 0]
    /\ UNCHANGED <<sf, phase, i, fdata_idx, buf, ok, jid, cyc, waitRet, polls, sleeps,
                   hsfsts, cycle_done, hw, hist, rg>>

CallRead ==
    \E c \in (FlaSet \X ReadLens) \cup WrapReads :
        Call("read", c[1], c[2], <<>>, TRUE) /\ pc' = "check_fdv" /\ UNCHANGED result

CallWrite ==
    \E c \in (FlaSet \X WriteBufs) \cup WrapWrites :
        Call("write", c[1], Len(c[2]), c[2], TRUE) /\ pc' = "check_fdv" /\ UNCHANGED result

CallErase ==
    \E fla \in EraseFlas :
        Call("erase", fla, 0, <<>>, TRUE) /\ pc' = "check_fdv" /\ UNCHANGED result

\* Python's False where an id is expected: no id is negative
False == -2

\* mutant: the catalog is not asked
JedecSupported_Always(fcycle) == TRUE

\* `if self.cs.register_has_field( 'HSFS', 'FCYCLE' )`
JedecSupported(fcycle) == fcycle

\* get_SPI_JEDEC_ID: `if register_has_field('HSFS', 'FCYCLE')` ... `else: return False`
CallJedec ==
    \E fcycle \in BOOLEAN :
        /\ Call("jedec", 0, 0, <<>>, fcycle)
        /\ IF JedecSupported(fcycle) THEN pc' = "check_fdv" /\ UNCHANGED result
           ELSE Finish("False")

\* get_SPI_JEDEC_ID_decoded: jedec_id = self.get_SPI_JEDEC_ID(), which returns
\* False at once without HSFS.FCYCLE
CallJedecDecoded ==
    \E fcycle \in BOOLEAN :
        /\ pc = "idle"
        /\ op' = [NoOp EXCEPT !.name = "jedec_decoded", !.fcycle = fcycle]
        /\ IF JedecSupported(fcycle) THEN pc' = "check_fdv" /\ UNCHANGED jid
           ELSE pc' = "jedec_dec" /\ jid' = False
        /\ UNCHANGED <<sf, result, phase, i, fdata_idx, buf, ok, cyc, waitRet, polls,
                       sleeps, hsfsts, cycle_done, hw, hist, rg>>

\* ------------------------------------------------------------ read_spi
\* mutant: the chunk size stays at the default
ReadDbc_AlwaysDef(n) == SPI_READ_WRITE_DEF_DBC

\* dbc = 4, or 64 when data_byte_count >= 64
ReadDbc(n) ==
    IF n >= SPI_READ_WRITE_MAX_DBC THEN SPI_READ_WRITE_MAX_DBC ELSE SPI_READ_WRITE_DEF_DBC

\* n = data_byte_count / dbc, r = data_byte_count % dbc
ReadChunks(n) == n \div ReadDbc(n)
ReadRem(n) == n % ReadDbc(n)

\* mutant: the remainder's byte count is passed unencoded
ReadRemDbc_Plain(n) == ReadRem(n)

\* the dbc argument of the remainder cycle
ReadRemDbc(n) == ReadRem(n) - 1

\* the dwords read back after a full chunk (dbc/4) and after the remainder ((r+3)/4)
ChunkDwords(n) == ReadDbc(n) \div 4
RemDwords(n) == (ReadRem(n) + 3) \div 4

\* mutant: every dword of the remainder gives four bytes
RemBytes_Whole(n, idx) == 4

\* t: the bytes taken from dword idx of the remainder
RemBytes(n, idx) ==
    IF idx = RemDwords(n) - 1 /\ 0 # ReadRem(n) % 4 THEN ReadRem(n) % 4 ELSE 4

\* [ chr((dword_value >> (8*j)) & 0xff) for j in range(t) ]
DwordBytes(d, t) == [j \in 1 .. t |-> ByteAt(d, j - 1)]

\* mutant: the result of the pre-flight wait is not looked at
NotReady_Never(done) == FALSE

\* `if not cycle_done` after the pre-flight wait
NotReady(done) == ~done

\* the pre-flight wait is over: None when it failed, else the first cycle
PreflightRet ==
    /\ pc = "preflight_ret"
    /\ IF NotReady(cycle_done)
       THEN /\ Finish("None")
            /\ UNCHANGED <<cyc, phase, i>>
       ELSE IF op.name = "erase"
       THEN /\ EnterSend(HSFCTL_ERASE_CYCLE, 0, op.fla, "erase")
            /\ UNCHANGED <<result, i>>
       ELSE /\ pc' = IF op.name = "read" THEN "rd_loop" ELSE "wr_loop"
            /\ i' = 0
            /\ UNCHANGED <<result, cyc, phase>>
    /\ UNCHANGED <<op, sf, fdata_idx, buf, ok, jid, waitRet, polls, sleeps, hsfsts,
                   cycle_done, hw, hist, rg>>

\* `for i in range(n)`, then `if 0 != r`, then `return buf`
ReadLoop ==
    /\ pc = "rd_loop"
    /\ IF i < ReadChunks(op.n)
       THEN /\ EnterSend(HSFCTL_READ_CYCLE, ReadDbc(op.n) - 1,
                         op.fla + i * ReadDbc(op.n), "chunk")
            /\ UNCHANGED result
       ELSE IF 0 # ReadRem(op.n)
       THEN /\ EnterSend(HSFCTL_READ_CYCLE, ReadRemDbc(op.n),
                         op.fla + ReadChunks(op.n) * ReadDbc(op.n), "rem")
            /\ UNCHANGED result
       ELSE /\ Finish("returned")
            /\ UNCHANGED <<cyc, phase>>
    /\ UNCHANGED <<op, sf, i, fdata_idx, buf, ok, jid, waitRet, polls, sleeps, hsfsts,
                   cycle_done, hw, hist, rg>>

\* mutant: a failed READ cycle ends the operation
ReadCycleRet_StopOnFail ==
    /\ pc = "cycle_ret" /\ op.name = "read"
    /\ IF cycle_done
       THEN /\ pc' = "rd_data" /\ fdata_idx' = 0
            /\ UNCHANGED <<i, result>>
       ELSE /\ Finish("returned")
            /\ UNCHANGED <<i, fdata_idx>>
    /\ UNCHANGED <<op, sf, phase, buf, ok, jid, cyc, waitRet, polls, sleeps, hsfsts,
                   cycle_done, hw, hist, rg>>

\* a READ cycle returned: failed, it is logged and skipped; else its data is read
ReadCycleRet ==
    /\ pc = "cycle_ret" /\ op.name = "read"
    /\ IF cycle_done
       THEN /\ pc' = "rd_data" /\ fdata_idx' = 0
            /\ UNCHANGED <<i, result>>
       ELSE IF phase = "chunk"
       THEN /\ pc' = "rd_loop" /\ i' = i + 1
            /\ UNCHANGED <<fdata_idx, result>>
       ELSE /\ Finish("returned")
            /\ UNCHANGED <<i, fdata_idx>>
    /\ UNCHANGED <<op, sf, phase, buf, ok, jid, cyc, waitRet, polls, sleeps, hsfsts,
                   cycle_done, hw, hist, rg>>

\* dword_value = spi_reg_read(fdata0_off + fdata_idx*4); buf += its bytes
ReadData ==
    /\ pc = "rd_data"
    /\ LET count == IF phase = "chunk" THEN ChunkDwords(op.n) ELSE RemDwords(op.n)
           t == IF phase = "chunk" THEN 4 ELSE RemBytes(op.n, fdata_idx)
       IN  /\ buf' = buf \o DwordBytes(fdata[fdata_idx], t)
           /\ rd' = Append(rd, fdata[fdata_idx])
           /\ IF fdata_idx + 1 < count
              THEN /\ fdata_idx' = fdata_idx + 1
                   /\ UNCHANGED <<pc, i, result>>
              ELSE IF phase = "chunk"
              THEN /\ pc' = "rd_loop" /\ i' = i + 1
                   /\ UNCHANGED <<fdata_idx, result>>
              ELSE /\ Finish("returned")
                   /\ UNCHANGED <<fdata_idx, i>>
    /\ UNCHANGED <<op, sf, phase, ok, jid, cyc, waitRet, polls, sleeps, hsfsts,
                   cycle_done, hw, wlog, issued, idleSeen, cleared, nfail,
                   rets, rg, csrd>>

\* ------------------------------------------------------------ write_spi
WriteChunks(n) == n \div WRITE_DBC
WriteRem(n) == n % WRITE_DBC

\* mutant: the first byte of the chunk goes to the most significant byte
PackBytes_BigEndian(data, base, cnt) ==
    [b \in 1 .. 4 |-> IF 5 - b <= cnt THEN data[base + 5 - b] ELSE 0]

\* dword_value |= ord(buf[base + j]) << 8*j for j in range(cnt): byte j of the
\* dword is buf[base + j], the bytes from cnt on are 0; the four-byte expression
\* of a full chunk is the same with cnt = 4
PackBytes(data, base, cnt) == [b \in 1 .. 4 |-> IF b <= cnt THEN data[base + b] ELSE 0]

\* `for i in range(n)`, then `if 0 != r`, then `return write_ok`
WriteLoop ==
    /\ pc = "wr_loop"
    /\ IF i < WriteChunks(op.n)
       THEN /\ pc' = "wr_fdata" /\ phase' = "chunk"
            /\ UNCHANGED result
       ELSE IF 0 # WriteRem(op.n)
       THEN /\ pc' = "wr_fdata" /\ phase' = "rem"
            /\ UNCHANGED result
       ELSE /\ Finish("returned")
            /\ UNCHANGED phase
    /\ UNCHANGED <<op, sf, i, fdata_idx, buf, ok, jid, cyc, waitRet, polls, sleeps, hsfsts,
                   cycle_done, hw, hist, rg>>

\* spi_reg_write(fdata0_off, dword_value), then the WRITE cycle
WriteFdata ==
    /\ pc = "wr_fdata"
    /\ LET cnt == IF phase = "chunk" THEN WRITE_DBC ELSE WriteRem(op.n)
           dword_value == PackBytes(op.data, i * WRITE_DBC, cnt)
       IN  /\ fdata' = [fdata EXCEPT ![0] = dword_value]
           /\ hsfs' = HwRegWrite(hsfs)
           /\ wlog' = Append(wlog, <<"FDATA0", dword_value>>)
           /\ EnterSend(HSFCTL_WRITE_CYCLE, cnt - 1, op.fla + i * WRITE_DBC, phase)
    /\ UNCHANGED <<op, sf, result, i, fdata_idx, buf, ok, jid, waitRet, polls, sleeps,
                   hsfsts, cycle_done, fdv, ptinx, faddr, hsfc, dbcr, inflight, issued, rd,
                   idleSeen, cleared, nfail,
                   rets, rg, cs, csrd>>

\* mutant: a failed WRITE cycle ends the operation
WriteCycleRet_StopOnFail ==
    /\ pc = "cycle_ret" /\ op.name = "write"
    /\ ok' = (ok /\ cycle_done)
    /\ IF phase = "chunk" /\ cycle_done
       THEN /\ pc' = "wr_loop" /\ i' = i + 1
            /\ UNCHANGED result
       ELSE /\ Finish("returned")
            /\ UNCHANGED i
    /\ UNCHANGED <<op, sf, phase, fdata_idx, buf, jid, cyc, waitRet, polls, sleeps, hsfsts,
                   cycle_done, hw, hist, rg>>

\* mutant: write_ok is the result of the last cycle
WriteCycleRet_LastOnly ==
    /\ pc = "cycle_ret" /\ op.name = "write"
    /\ ok' = cycle_done
    /\ IF phase = "chunk"
       THEN /\ pc' = "wr_loop" /\ i' = i + 1
            /\ UNCHANGED result
       ELSE /\ Finish("returned")
            /\ UNCHANGED i
    /\ UNCHANGED <<op, sf, phase, fdata_idx, buf, jid, cyc, waitRet, polls, sleeps, hsfsts,
                   cycle_done, hw, hist, rg>>

\* a WRITE cycle returned: a failure makes write_ok False, the loop goes on
WriteCycleRet ==
    /\ pc = "cycle_ret" /\ op.name = "write"
    /\ ok' = (ok /\ cycle_done)
    /\ IF phase = "chunk"
       THEN /\ pc' = "wr_loop" /\ i' = i + 1
            /\ UNCHANGED result
       ELSE /\ Finish("returned")
            /\ UNCHANGED i
    /\ UNCHANGED <<op, sf, phase, fdata_idx, buf, jid, cyc, waitRet, polls, sleeps, hsfsts,
                   cycle_done, hw, hist, rg>>

\* ------------------------------------------------------------ erase_spi_block
\* mutant: erase_spi_block reports success whatever the cycle returned
EraseCycleRet_AlwaysTrue ==
    /\ pc = "cycle_ret" /\ op.name = "erase"
    /\ ok' = TRUE
    /\ Finish("returned")
    /\ UNCHANGED <<op, sf, phase, i, fdata_idx, buf, jid, cyc, waitRet, polls, sleeps,
                   hsfsts, cycle_done, hw, hist, rg>>

\* erase_ok = _send_spi_cycle(HSFCTL_ERASE_CYCLE, 0, spi_fla); return erase_ok
EraseCycleRet ==
    /\ pc = "cycle_ret" /\ op.name = "erase"
    /\ ok' = cycle_done
    /\ Finish("returned")
    /\ UNCHANGED <<op, sf, phase, i, fdata_idx, buf, jid, cyc, waitRet, polls, sleeps,
                   hsfsts, cycle_done, hw, hist, rg>>

\* ------------------------------------------------------------ get_SPI_JEDEC_ID
\* mutant: the low three bytes are returned in the order FDATA0 holds them
JedecSwap_NoSwap(id) ==
    BitOr(BitOr(Shl(ByteAt(id, 2), 16), Shl(ByteAt(id, 1), 8)), ByteAt(id, 0))

\* mutant: id >> 16 is not masked to a byte
JedecSwap_Unmasked(id) ==
    BitOr(BitOr(Shl(ByteAt(id, 0), 16), Shl(ByteAt(id, 1), 8)),
          BitOr(ByteAt(id, 2), Shl(ByteAt(id, 3), 8)))

\* ((id & 0xFF) << 16) | (id & 0xFF00) | ((id >> 16) & 0xFF)
JedecSwap(id) ==
    BitOr(BitOr(Shl(ByteAt(id, 0), 16), Shl(ByteAt(id, 1), 8)), ByteAt(id, 2))

\* mutant: a failed cycle ends the call with False
JedecCycleRet_FalseOnFail ==
    /\ pc = "cycle_ret" /\ op.name \in {"jedec", "jedec_decoded"}
    /\ IF cycle_done THEN pc' = "jedec_read" /\ UNCHANGED result
       ELSE Finish("False")
    /\ UNCHANGED <<op, sf, phase, i, fdata_idx, buf, ok, jid, cyc, waitRet, polls,
                   sleeps, hsfsts, cycle_done, hw, hist, rg>>

\* the JEDEC cycle returned; failed or not, FDATA0 is read next
JedecCycleRet ==
    /\ pc = "cycle_ret" /\ op.name \in {"jedec", "jedec_decoded"}
    /\ pc' = "jedec_read"
    /\ UNCHANGED <<op, sf, result, phase, i, fdata_idx, buf, ok, jid, cyc, waitRet, polls,
                   sleeps, hsfsts, cycle_done, hw, hist, rg>>

\* id = spi_reg_read(fdata0_off); return the swapped id
JedecRead ==
    /\ pc = "jedec_read"
    /\ jid' = JedecSwap(fdata[0])
    /\ rd' = Append(rd, fdata[0])
    /\ IF op.name = "jedec_decoded" THEN pc' = "jedec_dec" /\ UNCHANGED result
       ELSE Finish("returned")
    /\ UNCHANGED <<op, sf, phase, i, fdata_idx, buf, ok, cyc, waitRet, polls, sleeps,
                   hsfsts, cycle_done, hw, wlog, issued, idleSeen, cleared, nfail, rets,
                   rg, csrd>>

\* get_SPI_JEDEC_ID_decoded: the manufacturer key (jedec_id >> 16) & 0xff
JedecManu(id) == Shr(id, 16) % 256

\* JEDEC_ID.MANUFACTURER.get(key, 'Unknown')
JedecManufacturer(key) ==
    IF key = 194 THEN "Macronix" ELSE IF key = 239 THEN "Winbond" ELSE "Unknown"

\* JEDEC_ID.DEVICE.get(jedec_id, 'Unknown'): 0xEF4018 is in the table
JedecDevice(id) == IF id = 15679512 THEN "W25Q128 (SPI)" ELSE "Unknown"

\* `if jedec_id is False: return (False, 0, 0)`, else (jedec_id, manu, part)
JedecDecode ==
    /\ pc = "jedec_dec"
    /\ rg' = [NoRegion EXCEPT !.ret =
                 IF jid = False THEN <<False, 0, 0>>
                 ELSE <<jid, JedecManufacturer(JedecManu(jid)), JedecDevice(jid)>>]
    /\ Finish("returned")
    /\ UNCHANGED <<op, sf, phase, i, fdata_idx, buf, ok, jid, cyc, waitRet, polls, sleeps,
                   hsfsts, cycle_done, hw, hist>>

\* ------------------------------------------------------------ get_SPI_SFDP
CallSfdp ==
    \E fcycle \in BOOLEAN, parts \in SfdpFlashes, xml \in XmlCounts :
        /\ pc = "idle"
        /\ op' = [name |-> "sfdp", fla |-> 0, n |-> 0, data |-> <<>>, fcycle |-> fcycle,
                  parts |-> parts, xml |-> xml]
        /\ pc' = "sfdp_comp"
        /\ UNCHANGED <<sf, result, phase, i, fdata_idx, buf, ok, jid, cyc, waitRet, polls,
                       sleeps, hsfsts, cycle_done, hw, hist, rg>>

\* spi_reg_write(bios_ptinx, offset)
PtinxWrite(offset, next) ==
    /\ ptinx' = offset
    /\ wlog' = Append(wlog, <<"PTINX", offset>>)
    /\ pc' = next
    /\ UNCHANGED <<op, result, phase, i, fdata_idx, buf, ok, jid, cyc, waitRet, polls,
                   sleeps, hsfsts, cycle_done, hsfs, fdv, faddr, hsfc, dbcr, fdata,
                   inflight, issued, rd, idleSeen, cleared, nfail,
                   rets, rg, cs, csrd>>

\* `continue`: on to the next component
NextComponent == [sf EXCEPT !.component = sf.component + 1]

\* `for component in range(0,2)`: offset = 0 | (component << 14), written to PTINX
SfdpComponent ==
    /\ pc = "sfdp_comp"
    /\ IF sf.component < 2
       THEN /\ PtinxWrite(BitOr(0, Shl(sf.component, 14)), "sfdp_sig")
            /\ sf' = [sf EXCEPT !.offset = BitOr(0, Shl(sf.component, 14))]
       ELSE /\ Finish("returned")
            /\ UNCHANGED <<op, sf, phase, i, fdata_idx, buf, ok, jid, cyc, waitRet, polls,
                           sleeps, hsfsts, cycle_done, hw, hist, rg>>

\* mutant: every component is taken to have a header
IsSfdpHeader_Any(d) == TRUE

\* sfdp_signature == SFDP_HEADER
IsSfdpHeader(d) == d = DwordOf(SFDP_HEADER)

\* the signature is read from PTDATA: no header, no further access to the
\* component; else offset += 4 is written to PTINX
SfdpSignature ==
    /\ pc = "sfdp_sig"
    /\ IF IsSfdpHeader(PtData(op.parts, ptinx))
       THEN /\ PtinxWrite(sf.offset + 4, "sfdp_ver")
            /\ sf' = [sf EXCEPT !.offset = sf.offset + 4]
       ELSE /\ pc' = "sfdp_comp"
            /\ sf' = NextComponent
            /\ UNCHANGED <<op, result, phase, i, fdata_idx, buf, ok, jid, cyc, waitRet,
                           polls, sleeps, hsfsts, cycle_done, hw, hist, rg>>

\* num_of_param_headers = ((sfdp_data >> 16) & 0xFF) + 1; then the first
\* parameter header: offset = (component << 14) | 0x1000
SfdpVersion ==
    /\ pc = "sfdp_ver"
    /\ PtinxWrite(BitOr(BitOr(0, Shl(sf.component, 14)), 4096), "sfdp_par")
    /\ sf' = [sf EXCEPT !.nph = ByteAt(PtData(op.parts, ptinx), 2) + 1,
                         !.offset = BitOr(BitOr(0, Shl(sf.component, 14)), 4096)]

\* mutant: the cycle is issued whatever the header count and the catalog
WantsSfdpCycle_Always(nph, fcycle) == TRUE

\* `if (num_of_param_headers > 1) and register_has_field('HSFS', 'FCYCLE')`
WantsSfdpCycle(nph, fcycle) == nph > 1 /\ fcycle

\* param1_length = (parameter_1 >> 24) & 0xFF; then the SFDP cycle or the table
SfdpParameter ==
    /\ pc = "sfdp_par"
    /\ sf' = [sf EXCEPT !.p1len = ByteAt(PtData(op.parts, ptinx), 3), !.clr = 12]
    /\ pc' = IF WantsSfdpCycle(sf.nph, op.fcycle) THEN "check_fdv" ELSE "sfdp_tab"
    /\ UNCHANGED <<op, result, phase, i, fdata_idx, buf, ok, jid, cyc, waitRet, polls,
                   sleeps, hsfsts, cycle_done, hw, hist, rg>>

\* the registers behind fdata12_off .. fdata15_off
FdataName(k) == <<"FDATA12", "FDATA13", "FDATA14", "FDATA15">>[k - 11]

\* spi_reg_write(fdata12_off .. fdata15_off, 0), then the SFDP cycle
SfdpClearFdata ==
    /\ pc = "sfdp_clr"
    /\ fdata' = [fdata EXCEPT ![sf.clr] = DwordOf(0)]
    /\ hsfs' = HwRegWrite(hsfs)
    /\ wlog' = Append(wlog, <<FdataName(sf.clr), 0>>)
    /\ sf' = [sf EXCEPT !.clr = sf.clr + 1]
    /\ IF sf.clr = 15
       THEN EnterSend(HSFCTL_SFDP_CYCLE, 63, 0, "sfdp")
       ELSE UNCHANGED <<pc, cyc, phase>>
    /\ UNCHANGED <<op, result, i, fdata_idx, buf, ok, jid, waitRet, polls, sleeps,
                   hsfsts, cycle_done, fdv, ptinx, faddr, hsfc, dbcr, inflight, issued, rd,
                   idleSeen, cleared, nfail,
                   rets, rg, cs, csrd>>

\* the SFDP cycle returned: failed, `continue`; else the parameter headers
SfdpCycleRet ==
    /\ pc = "cycle_ret" /\ op.name = "sfdp"
    /\ IF cycle_done
       THEN pc' = "sfdp_hdr" /\ i' = 1 /\ UNCHANGED sf
       ELSE pc' = "sfdp_comp" /\ sf' = NextComponent /\ UNCHANGED i
    /\ UNCHANGED <<op, result, phase, fdata_idx, buf, ok, jid, cyc, waitRet, polls,
                   sleeps, hsfsts, cycle_done, hw, hist, rg>>

\* the FDATA register of "self.fdata" + str(2+(2*i)) + "_off"
HeaderReg(k) == 2 + 2 * k

\* self.fdata0_off .. self.fdata15_off are the attributes there are
FdataDefined(idx) == idx \in 0 .. 15

\* `for i in range(1, num_of_param_headers)`: the two dwords of header i are
\* read from FDATA(2+2i) and FDATA(2+2i+1); eval of a name that is no
\* attribute raises AttributeError
SfdpHeader ==
    /\ pc = "sfdp_hdr"
    /\ IF i < sf.nph
       THEN IF FdataDefined(HeaderReg(i)) /\ FdataDefined(HeaderReg(i) + 1)
            THEN /\ i' = i + 1
                 /\ rd' = rd \o <<fdata[HeaderReg(i)], fdata[HeaderReg(i) + 1]>>
                 /\ UNCHANGED <<pc, result>>
            ELSE /\ Finish("AttributeError")
                 /\ UNCHANGED <<i, rd>>
       ELSE /\ pc' = "sfdp_tab"
            /\ UNCHANGED <<i, rd, result>>
    /\ UNCHANGED <<op, sf, phase, fdata_idx, buf, ok, jid, cyc, waitRet, polls,
                   sleeps, hsfsts, cycle_done, hw, wlog, issued, idleSeen, cleared, nfail,
                   rets, rg, csrd>>

\* offset = (component << 14) | 0x2000; check_def_file("sfdp.xml") False: `continue`
SfdpTable ==
    /\ pc = "sfdp_tab"
    /\ IF op.xml < 0
       THEN pc' = "sfdp_comp" /\ sf' = NextComponent
       ELSE /\ pc' = "sfdp_row"
            /\ sf' = [sf EXCEPT !.offset = BitOr(BitOr(0, Shl(sf.component, 14)), 8192),
                                 !.count = 0]
    /\ UNCHANGED <<op, result, phase, i, fdata_idx, buf, ok, jid, cyc, waitRet, polls,
                   sleeps, hsfsts, cycle_done, hw, hist, rg>>

\* mutant: the offset advances by a 64-byte line
NextRow_ByLine(offset) == offset + 64

\* `offset +=4`
NextRow(offset) == offset + 4

\* mutant: the loop runs over param1_length alone
TableRowLeft_LengthOnly(count, children, p1len) == count < p1len

\* `for child in root: if count >= param1_length: break`: another row is read
TableRowLeft(count, children, p1len) == count < children /\ ~(count >= p1len)

\* `for child in root: if count >= param1_length: break`, else PTINX is
\* written with offset, PTDATA read, count += 1, offset += 4
SfdpRow ==
    /\ pc = "sfdp_row"
    /\ IF TableRowLeft(sf.count, op.xml, sf.p1len)
       THEN /\ PtinxWrite(sf.offset, "sfdp_row")
            /\ sf' = [sf EXCEPT !.count = sf.count + 1, !.offset = NextRow(sf.offset)]
       ELSE /\ pc' = "sfdp_comp"
            /\ sf' = NextComponent
            /\ UNCHANGED <<op, result, phase, i, fdata_idx, buf, ok, jid, cyc, waitRet,
                           polls, sleeps, hsfsts, cycle_done, hw, hist, rg>>

\* ------------------------------------------------------------ the system
Next ==
    \/ CallRead \/ CallWrite \/ CallErase \/ CallJedec
    \/ CheckHardwareSequencing \/ PreflightRet
    \/ WaitSpinPoll \/ WaitSleep \/ WaitLastPoll \/ WaitClear \/ WaitReread
    \/ SendFaddr \/ SendDbc \/ SendCmd
    \/ ReadLoop \/ ReadCycleRet \/ ReadData
    \/ WriteLoop \/ WriteFdata \/ WriteCycleRet
    \/ EraseCycleRet
    \/ JedecCycleRet \/ JedecRead \/ CallJedecDecoded \/ JedecDecode
    \/ CallSfdp \/ SfdpComponent \/ SfdpSignature \/ SfdpVersion \/ SfdpParameter
    \/ SfdpClearFdata \/ SfdpCycleRet \/ SfdpHeader \/ SfdpTable \/ SfdpRow
    \/ HwComplete \/ HwAccessError

Spec == Init /\ [][Next]_vars

TypeOK ==
    /\ pc \in {"idle", "check_fdv", "preflight_ret", "wait_spin", "wait_sleep",
               "wait_last", "wait_clear", "wait_reread", "send_faddr", "send_dbc",
               "send_cmd", "cycle_ret", "rd_loop", "rd_data", "wr_loop", "wr_fdata",
               "jedec_read", "sfdp_comp", "sfdp_sig", "sfdp_ver", "sfdp_par", "sfdp_clr",
               "sfdp_hdr", "sfdp_tab", "sfdp_row", "reg_defined", "reg_read", "regs_loop",
               "regs_ret", "pr_check", "pr_lookup", "pr_read", "bc_ble",
               "bc_bioswe", "bc_smmbwp", "bc_branch", "bc_set", "bc_reread", "jedec_dec",
               "done"}
    /\ hsfs \in 0 .. 255
    /\ polls \in 0 .. SPIN_POLLS + 1

\* ------------------------------------------------------------ properties
\* the positions inside _wait_SPI_flash_cycle_done
WaitPcs == {"wait_spin", "wait_sleep", "wait_last", "wait_clear", "wait_reread"}

\* the register writes of the call up to the clear of the running wait
WritesBeforeClear == IF cleared THEN SubSeq(wlog, 1, Len(wlog) - 1) ELSE wlog

\* the register named by the k-th write from the end of w (k = 0: the last)
RegFromEnd(w, k) == IF Len(w) > k THEN w[Len(w) - k][1] ELSE "none"
ValFromEnd(w, k) == IF Len(w) > k THEN w[Len(w) - k][2] ELSE -1

\* the number of writes to register reg in w
WritesTo(w, reg) == Cardinality({k \in 1 .. Len(w) : w[k][1] = reg})

\* C1: in _send_spi_cycle for a cycle other than ERASE the registers are
\* written in the order FADDR, DBC byte, command byte, each with the value of
\* the call, and the wait for completion runs only after the command byte.
C1_WriteOrder ==
    cyc.cmd # HSFCTL_ERASE_CYCLE =>
      /\ pc = "send_dbc" => RegFromEnd(wlog, 0) = "FADDR"
      /\ pc = "send_cmd" =>
            /\ RegFromEnd(wlog, 0) = "DBC"
            /\ RegFromEnd(wlog, 1) = "FADDR"
      /\ (pc \in WaitPcs /\ waitRet = "send") =>
            /\ RegFromEnd(WritesBeforeClear, 0) = "HSFC"
            /\ ValFromEnd(WritesBeforeClear, 0) = cyc.cmd
            /\ RegFromEnd(WritesBeforeClear, 1) = "DBC"
            /\ ValFromEnd(WritesBeforeClear, 1) = cyc.dbc
            /\ RegFromEnd(WritesBeforeClear, 2) = "FADDR"
            /\ ValFromEnd(WritesBeforeClear, 2) = BitAnd(cyc.fla, PCH_RCBA_SPI_FADDR_MASK)

\* a READ cycle with a non-zero address is waiting for completion, not cleared yet
C1_Witness ==
    /\ pc = "wait_spin" /\ waitRet = "send" /\ polls = 3
    /\ cyc.cmd = HSFCTL_READ_CYCLE /\ cyc.fla = 4096 + 64 /\ cyc.dbc = 5

\* C2: an ERASE cycle leaves the DBC byte alone (erase_spi_block never writes
\* it: the register keeps its value); every cycle of another kind writes the
\* DBC byte exactly once, with the dbc-1 of the call.
C2_DbcFrame ==
    /\ op.name = "erase" => (dbcr = DbcReset /\ WritesTo(wlog, "DBC") = 0)
    /\ (op.name \in {"read", "write", "jedec", "sfdp"} /\ pc \in WaitPcs \cup {"cycle_ret"}
          /\ waitRet = "send") =>
          /\ WritesTo(wlog, "DBC") = Len(issued)
          /\ WritesTo(wlog, "DBC") = WritesTo(wlog, "HSFC")
          /\ dbcr = cyc.dbc
          /\ issued[Len(issued)].dbc = cyc.dbc

\* an ERASE cycle was committed and has returned
C2_Witness ==
    /\ op.name = "erase" /\ pc = "done" /\ result = "returned"
    /\ Len(issued) = 1 /\ issued[1].cmd = HSFCTL_ERASE_CYCLE /\ hsfc = HSFCTL_ERASE_CYCLE

\* C3: after a cycle that _send_spi_cycle reports successful, the status the
\* driver read after the clear write shows FDONE = FCERR = AEL = 0.
C3_StatusClean ==
    (pc = "cycle_ret" /\ cycle_done) =>
        /\ hsfsts % 2 = 0
        /\ Shr(hsfsts, 1) % 2 = 0
        /\ Shr(hsfsts, 2) % 2 = 0

\* a cycle was reported successful whose completion had raised FDONE
C3_Witness ==
    /\ pc = "cycle_ret" /\ cycle_done /\ cleared /\ idleSeen
    /\ op.name = "write" /\ Len(issued) = 2

\* a wait has returned to its caller
WaitReturned == pc \in {"preflight_ret", "cycle_ret"}

\* the positions of the writes to register reg in w
WritesAt(w, reg) == {k \in 1 .. Len(w) : w[k][1] = reg}

\* the calls that wait for the controller before their first cycle
PreflightOps == {"read", "write", "erase"}

\* C4 (as stated): in every public operation HSFSTS_CLEAR is written to HSFS
\* only after a cycle of the call: every write to HSFS comes after a command
\* write of the same call.
C4_ClearOnlyAfterCycle ==
    \A k \in WritesAt(wlog, "HSFS") : \E j \in WritesAt(wlog, "HSFC") : j < k

\* C4 (amended): HSFS is written only with HSFSTS_CLEAR and only by a wait
\* that saw SCIP = 0: either as the first register write of read_spi,
\* write_spi or erase_spi_block (the wait before the first cycle), or right
\* after the command write of a cycle; get_SPI_JEDEC_ID and get_SPI_SFDP
\* write HSFS only after their command write, and no call writes HSFS between
\* the FADDR write and the command write of a cycle.
C4_ClearPlacement ==
    /\ \A k \in WritesAt(wlog, "HSFS") :
          /\ wlog[k][2] = HSFSTS_CLEAR
          /\ \/ k = 1 /\ op.name \in PreflightOps
             \/ k > 1 /\ wlog[k - 1][1] = "HSFC"
    /\ (pc = "wait_reread") => (idleSeen /\ RegFromEnd(wlog, 0) = "HSFS")
    /\ (pc \in {"send_dbc", "send_cmd"}) => RegFromEnd(wlog, 0) # "HSFS"

\* read_spi returned after one cycle: HSFS was cleared before the cycle was
\* issued and once more after its command write
C4_Witness ==
    /\ pc = "done" /\ op.name = "read" /\ Len(issued) = 1
    /\ WritesAt(wlog, "HSFS") = {1, 5}
    /\ WritesAt(wlog, "HSFC") = {4}

\* C5: _wait_SPI_flash_cycle_done returns true exactly when a poll saw
\* SCIP = 0 and the status re-read after the write of FDONE|FCERR|AEL shows
\* AEL = 0 and FCERR = 0; when the last poll still shows SCIP = 1 it returns
\* false (and has written nothing).
C5_WaitResult ==
    WaitReturned =>
      /\ cycle_done <=>
            (idleSeen /\ cleared /\ Shr(hsfsts, 2) % 2 = 0 /\ Shr(hsfsts, 1) % 2 = 0)
      /\ idleSeen => (cleared /\ RegFromEnd(wlog, 0) = "HSFS" /\ ValFromEnd(wlog, 0) = 7)
      /\ ~idleSeen => (~cycle_done /\ ~cleared /\ Shr(hsfsts, 5) % 2 = 1)

\* a wait saw the controller idle, cleared, and still returned false
C5_Witness ==
    /\ pc = "cycle_ret" /\ idleSeen /\ cleared /\ ~cycle_done
    /\ Shr(hsfsts, 2) % 2 = 1

\* C6: _wait_SPI_flash_cycle_done ends whatever the controller does: the spin
\* loop polls at most 1000 times and stops at the first poll with SCIP = 0;
\* only after 1000 busy polls the driver sleeps once and polls once more, so
\* a wait makes at most 1001 polls and one sleep; in every position of the
\* wait the driver has a next step.
C6_WaitBounded ==
    /\ pc = "wait_spin" => (polls < 1000 /\ sleeps = 0)
    /\ (pc = "wait_spin" /\ polls > 0) => Shr(hsfsts, 5) % 2 = 1
    /\ pc = "wait_sleep" => (polls = 1000 /\ sleeps = 0 /\ Shr(hsfsts, 5) % 2 = 1)
    /\ pc = "wait_last" => (polls = 1000 /\ sleeps = 1 /\ Shr(hsfsts, 5) % 2 = 1)
    /\ pc \notin {"wait_spin", "wait_sleep", "wait_last"} => (polls = 0 /\ sleeps <= 1)
    /\ pc \in WaitPcs =>
          ENABLED (WaitSpinPoll \/ WaitSleep \/ WaitLastPoll \/ WaitClear \/ WaitReread)

\* the controller stayed busy for 1000 polls and the sleep: the last poll is due
C6_Witness == pc = "wait_last" /\ polls = 1000 /\ sleeps = 1 /\ Busy(hsfs)

\* C7: read_spi, write_spi and erase_spi_block test HSFS.FDV first: with
\* FDV = 0 the call ends in SpiRuntimeError and has written no register and
\* committed no cycle; a cycle is only ever committed with FDV = 1.
C7_FdvFirst ==
    op.name \in {"read", "write", "erase"} =>
      /\ pc = "check_fdv" => (wlog = <<>> /\ issued = <<>>)
      /\ fdv = 0 =>
            /\ wlog = <<>> /\ issued = <<>>
            /\ faddr = 0 /\ hsfc = 0 /\ dbcr = DbcReset /\ fdata = FdataReset
            /\ pc \in {"check_fdv", "done"}
            /\ pc = "done" => result = "raised"
      /\ (wlog # <<>> \/ issued # <<>> \/ pc \in WaitPcs) => fdv = 1

\* write_spi was called with FDV = 0 and has raised
C7_Witness == op.name = "write" /\ op.n = 5 /\ fdv = 0 /\ pc = "done" /\ result = "raised"

\* this step writes FADDR, the DBC byte or the command byte
CycleRegWritten ==
    /\ wlog' # wlog
    /\ RegFromEnd(wlog', 0) \in {"FADDR", "DBC", "HSFC"}

\* C8: once the call has written a command byte, it writes FADDR, the DBC
\* byte or HSFC again only when the controller has finished the cycle
\* (SCIP = 0) or the wait has reported failure.
C8_NoAbort ==
    [][(CycleRegWritten /\ issued # <<>>) => (~Busy(hsfs) \/ ~cycle_done)]_vars

\* the controller is executing the cycle of the call while the driver polls
C8_Witness ==
    /\ pc = "wait_spin" /\ waitRet = "send" /\ polls = 7 /\ Busy(hsfs)
    /\ inflight.cmd = HSFCTL_WRITE_CYCLE /\ inflight.addr = 4 /\ Len(issued) = 2

RECURSIVE LittleEndianBytes(_)
\* the bytes of a sequence of dwords, each dword least significant byte first
LittleEndianBytes(ds) ==
    IF ds = <<>> THEN <<>>
    ELSE <<ByteAt(Head(ds), 0), ByteAt(Head(ds), 1), ByteAt(Head(ds), 2),
           ByteAt(Head(ds), 3)>> \o LittleEndianBytes(Tail(ds))

\* C9: when the pre-flight wait and every READ cycle succeed, read_spi(fla, n)
\* returns exactly n bytes: the little-endian bytes of the FDATA dwords it
\* read back, in the order read (the last dword cut to what remains).
C9_ReadExact ==
    (op.name = "read" /\ pc = "done" /\ result = "returned" /\ nfail = 0) =>
        /\ Len(buf) = op.n
        /\ Len(rd) = (op.n + 3) \div 4
        /\ buf = SubSeq(LittleEndianBytes(rd), 1, op.n)

\* 70 bytes were read with every cycle successful
C9_Witness ==
    /\ op.name = "read" /\ pc = "done" /\ result = "returned" /\ nfail = 0
    /\ op.n = 70 /\ Len(buf) = 70 /\ Len(issued) = 2
    /\ \A k \in 1 .. 70 : buf[k] = FlashByte(op.fla + k - 1)

\* the READ cycles read_spi(fla, n) has to commit, in order
ExpectedReads(fla, n) ==
    LET DBC == IF n >= 64 THEN 64 ELSE 4
        q == n \div DBC
        r == n % DBC
        full == [k \in 1 .. q |->
                   [cmd |-> 1, dbc |-> DBC - 1,
                    addr |-> BitAnd(fla + (k - 1) * DBC, PCH_RCBA_SPI_FADDR_MASK)]]
    IN  IF r # 0
        THEN Append(full, [cmd |-> 1, dbc |-> r - 1,
                           addr |-> BitAnd(fla + q * DBC, PCH_RCBA_SPI_FADDR_MASK)])
        ELSE full

\* s is a prefix of t
IsPrefix(s, t) == Len(s) <= Len(t) /\ s = SubSeq(t, 1, Len(s))

CycleBytes(c) == c.dbc + 1

\* the bytes of the first k cycles of s
RECURSIVE BytesIssued(_, _)
BytesIssued(s, k) == IF k = 0 THEN 0 ELSE BytesIssued(s, k - 1) + CycleBytes(s[k])

\* C11: every READ cycle of read_spi has a Data Byte Count in 1..64 (the DBC
\* byte in 0..63), and a cycle issued while at least 64 bytes of the request
\* are still unread has a Data Byte Count of 64.
C11_ReadDbcRange ==
    op.name = "read" =>
      \A k \in 1 .. Len(issued) :
        /\ issued[k].cmd = HSFCTL_READ_CYCLE
        /\ issued[k].dbc \in 0 .. 63
        /\ CycleBytes(issued[k]) \in 1 .. 64
        /\ op.n - BytesIssued(issued, k - 1) >= 64 => CycleBytes(issued[k]) = 64

\* read_spi(fla, 128) returned after two cycles of 64 bytes
C11_Witness ==
    /\ op.name = "read" /\ pc = "done" /\ op.n = 128
    /\ Len(issued) = 2 /\ issued[1].dbc = 63 /\ issued[2].dbc = 63

\* C12 (as stated): of a request of 64 bytes or more, what remains after the
\* full 64-byte chunks is read in 4-byte chunks: each READ cycle after the full
\* chunks transfers at most 4 bytes.
C12_RemainderInDefChunks ==
    (op.name = "read" /\ op.n >= SPI_READ_WRITE_MAX_DBC) =>
      \A k \in 1 .. Len(issued) :
        k > ReadChunks(op.n) => CycleBytes(issued[k]) <= SPI_READ_WRITE_DEF_DBC

\* the bytes of the first k cycles of s among those that returned True in r
RECURSIVE BytesSucceeded(_, _, _)
BytesSucceeded(s, r, k) ==
    IF k = 0 THEN 0
    ELSE BytesSucceeded(s, r, k - 1) + (IF r[k] THEN CycleBytes(s[k]) ELSE 0)

\* C13: in read_spi a failed READ cycle adds no bytes to the buffer and does
\* not end the operation: whatever cycles failed, all chunks and the remainder
\* are issued, and between cycles and at the return the buffer has as many
\* bytes as the cycles that succeeded transferred.
C13_ReadSkipsFailed ==
    (op.name = "read" /\ pc \in {"rd_loop", "done"} /\ result # "raised"
        /\ result # "None") =>
      /\ Len(rets) = Len(issued)
      /\ Len(buf) = BytesSucceeded(issued, rets, Len(issued))
      /\ pc = "done" => issued = ExpectedReads(op.fla, op.n)

\* read_spi(fla, 70): the first cycle failed, the remainder was still read
C13_Witness ==
    /\ op.name = "read" /\ pc = "done" /\ result = "returned" /\ op.n = 70
    /\ rets = <<FALSE, TRUE>> /\ Len(issued) = 2 /\ Len(buf) = 6

\* C14: a write_spi that runs to its return has issued exactly ceil(n/4)
\* cycles for a buffer of n bytes, all of them WRITE cycles, whichever of them
\* failed; before the return it has issued no more than that.
C14_WriteCycleCount ==
    op.name = "write" =>
      /\ Len(issued) <= (op.n + 3) \div 4
      /\ \A k \in 1 .. Len(issued) : issued[k].cmd = HSFCTL_WRITE_CYCLE
      /\ (pc = "done" /\ result = "returned") =>
            /\ Len(issued) = (op.n + 3) \div 4
            /\ Len(rets) = Len(issued)

\* write_spi of 5 bytes returned after two cycles, the first of which failed
C14_Witness ==
    /\ op.name = "write" /\ op.n = 5 /\ pc = "done" /\ result = "returned"
    /\ Len(issued) = 2 /\ rets = <<FALSE, TRUE>>

\* every cycle so far returned True
AllSucceeded(r) == \A k \in 1 .. Len(r) : r[k]

\* C15: write_ok, the value write_spi returns, is the conjunction of the
\* results of the WRITE cycles it issued: True exactly when all of them (the
\* remainder cycle too) succeeded; after a failed cycle the later chunks are
\* still written and the result stays False.
C15_WriteResult ==
    (op.name = "write" /\ pc \in {"wr_loop", "wr_fdata", "done"} /\ result # "raised"
        /\ result # "None") =>
      /\ ok = AllSucceeded(rets)
      /\ pc = "done" => Len(rets) = (op.n + 3) \div 4

\* write_spi of 5 bytes returned False: the first cycle failed, the remainder
\* cycle was issued and succeeded
C15_Witness ==
    /\ op.name = "write" /\ op.n = 5 /\ pc = "done" /\ result = "returned"
    /\ ~ok /\ rets[1] = FALSE /\ rets[2] = TRUE /\ issued[2].addr = op.fla + 4

\* the values written to register reg in w, in order
ValuesWritten(w, reg) ==
    LET hits == SelectSeq(w, LAMBDA e : e[1] = reg)
    IN  [k \in 1 .. Len(hits) |-> hits[k][2]]

\* the dword of chunk k of a buffer: its bytes from the least significant
\* end, zero where the buffer has ended
ChunkDword(data, k) ==
    [b \in 1 .. 4 |-> IF 4 * (k - 1) + b <= Len(data) THEN data[4 * (k - 1) + b] ELSE 0]

\* the WRITE cycle of chunk k of write_spi(fla, data)
ChunkCycle(fla, data, k) ==
    [cmd |-> 5,
     dbc |-> IF 4 * k <= Len(data) THEN 3 ELSE (Len(data) % 4) - 1,
     addr |-> BitAnd(fla + 4 * (k - 1), PCH_RCBA_SPI_FADDR_MASK)]

\* the register writes of _send_spi_cycle made before position p
SendWritesAt(p) == IF p = "send_faddr" THEN 0 ELSE IF p = "send_dbc" THEN 1 ELSE 2

\* C16: for each chunk of write_spi FDATA0 is written before the chunk's WRITE
\* cycle is issued, with the chunk's bytes packed little-endian (the bytes a
\* remainder of r bytes does not fill are zero); a full chunk uses dbc-1 = 3
\* at fla + 4*i, the remainder dbc-1 = r-1 at fla + 4*q, so every WRITE cycle
\* has a Data Byte Count in 1..4.
C16_WritePacking ==
    op.name = "write" =>
      /\ WritesTo(wlog, "FDATA0") >= WritesTo(wlog, "HSFC")
      /\ WritesTo(wlog, "FDATA0") <= WritesTo(wlog, "HSFC") + 1
      /\ \A k \in 1 .. WritesTo(wlog, "FDATA0") :
            ValuesWritten(wlog, "FDATA0")[k] = ChunkDword(op.data, k)
      /\ \A k \in 1 .. Len(issued) :
            /\ issued[k] = ChunkCycle(op.fla, op.data, k)
            /\ CycleBytes(issued[k]) \in 1 .. 4
      /\ (pc \in {"send_faddr", "send_dbc", "send_cmd"}) =>
            /\ RegFromEnd(wlog, SendWritesAt(pc)) = "FDATA0"
            /\ fdata[0] = ChunkDword(op.data, Len(issued) + 1)

\* write_spi(0, AA BB CC DD EE): FDATA0 = 0xDDCCBBAA with dbc-1 = 3 at 0, then
\* FDATA0 = 0x000000EE with dbc-1 = 0 at 4
C16_Witness ==
    /\ op.name = "write" /\ op.fla = 0 /\ pc = "done" /\ result = "returned"
    /\ op.data = <<170, 187, 204, 221, 238>>
    /\ ValuesWritten(wlog, "FDATA0") = <<<<170, 187, 204, 221>>, <<238, 0, 0, 0>>>>
    /\ issued = <<[cmd |-> 5, dbc |-> 3, addr |-> 0], [cmd |-> 5, dbc |-> 0, addr |-> 4]>>

\* C17: erase_spi_block(fla) issues nothing before its pre-flight wait has
\* succeeded, then exactly one cycle: an ERASE cycle (command byte
\* (3 << 1) | 1 = 7) at FADDR = fla & FADDR_MASK, never a READ or WRITE cycle
\* and no write to DBC or FDATA, and returns what that cycle returned.
C17_EraseOneCycle ==
    op.name = "erase" =>
      /\ Len(issued) <= 1
      /\ \A k \in 1 .. Len(issued) :
            /\ issued[k].cmd = 7
            /\ issued[k].addr = op.fla % 134217728
      /\ \A k \in 1 .. Len(wlog) : wlog[k][1] \in {"HSFS", "FADDR", "HSFC"}
      /\ wlog # <<>> => wlog[1] = <<"HSFS", 7>>
      /\ (pc = "done" /\ result = "returned") =>
            /\ Len(issued) = 1 /\ Len(rets) = 1
            /\ ok = rets[1]
            /\ ValuesWritten(wlog, "FADDR") = <<op.fla % 134217728>>
            /\ ValuesWritten(wlog, "HSFC") = <<7>>
      /\ (pc = "done" /\ result # "returned") => issued = <<>>

\* erase_spi_block(0x10000) returned True after its single ERASE cycle
C17_Witness ==
    /\ op.name = "erase" /\ op.fla = 65536 /\ pc = "done" /\ result = "returned" /\ ok
    /\ Len(issued) = 1 /\ issued[1].cmd = 7 /\ issued[1].addr = 65536
    /\ faddr = 65536 /\ hsfc = 7

\* C18: with HSFS.FCYCLE in the catalog and FDV = 1, get_SPI_JEDEC_ID issues
\* one cycle, a JEDEC cycle (command byte (6 << 1) | 1 = 13) with dbc-1 = 4 at
\* FLA 0, then reads FDATA0 and returns its bytes 0, 1, 2 as the bytes 2, 1, 0
\* of the result: ((id & 0xFF) << 16) | (id & 0xFF00) | ((id >> 16) & 0xFF);
\* FDATA0 = 0x001720C2 gives 0xC22017.
C18_JedecId ==
    (op.name = "jedec" /\ op.fcycle /\ fdv = 1) =>
      /\ Len(issued) <= 1
      /\ \A k \in 1 .. Len(issued) : issued[k] = [cmd |-> 13, dbc |-> 4, addr |-> 0]
      /\ pc = "done" =>
            /\ result = "returned" /\ Len(issued) = 1
            /\ Len(rd) = 1
            /\ jid = rd[1][1] * 65536 + rd[1][2] * 256 + rd[1][3]
            /\ rd[1] = <<194, 32, 23, 0>> => jid = 12722199

\* the JEDEC cycle succeeded, FDATA0 = 0x001720C2, the call returned 0xC22017
C18_Witness ==
    /\ op.name = "jedec" /\ op.fcycle /\ fdv = 1 /\ pc = "done" /\ rets = <<TRUE>>
    /\ rd = <<fdata[0]>> /\ fdata[0] = <<194, 32, 23, 0>> /\ jid = 12722199

\* ------------------------------------------------------------ the JEDEC swap alone
\* bytes a part may put into FDATA0
SwapBytes == {0, 1, 23, 32, 194, 255}
\* FDATA0 values: 24-bit ones (top byte 0) and 32-bit ones
SwapInputs == {<<b0, b1, b2, b3>> : b0 \in SwapBytes, b1 \in SwapBytes, b2 \in SwapBytes,
                                    b3 \in {0, 255}}

\* get_SPI_JEDEC_ID is about to read FDATA0, which holds any of SwapInputs
SwapInit ==
    /\ pc = "jedec_read" /\ result = "running" /\ phase = "jedec"
    /\ op = [name |-> "jedec", fla |-> 0, n |-> 0, data |-> <<>>, fcycle |-> TRUE,
             parts |-> <<>>, xml |-> 0]
    /\ i = 0 /\ fdata_idx = 0 /\ buf = <<>> /\ ok = TRUE /\ jid = 0
    /\ cyc = [cmd |-> HSFCTL_JEDEC_CYCLE, dbc |-> 4, fla |-> 0]
    /\ waitRet = "send" /\ polls = 0 /\ sleeps = 0 /\ hsfsts = 0 /\ cycle_done = TRUE
    /\ hsfs = 0 /\ fdv = 1 /\ faddr = 0 /\ hsfc = HSFCTL_JEDEC_CYCLE /\ dbcr = 4
    /\ \E d \in SwapInputs : fdata = [FdataReset EXCEPT ![0] = d]
    /\ ptinx = 0 /\ sf = NoSfdp /\ inflight = NoCycle
    /\ wlog = <<<<"FADDR", 0>>, <<"DBC", 4>>, <<"HSFC", HSFCTL_JEDEC_CYCLE>>, <<"HSFS", 7>>>>
    /\ issued = <<[cmd |-> HSFCTL_JEDEC_CYCLE, dbc |-> 4, addr |-> 0]>>
    /\ rd = <<>> /\ idleSeen = TRUE /\ cleared = TRUE /\ nfail = 0 /\ rets = <<TRUE>>
    /\ cs = NoCatalog /\ rg = NoRegion /\ csrd = <<<<"read", "HSFS.FDV">>>>

\* the swap applied to the value get_SPI_JEDEC_ID returned
SwapAgain ==
    /\ pc = "done" /\ i = 0
    /\ jid' = JedecSwap(DwordOf(jid))
    /\ i' = 1
    /\ UNCHANGED <<pc, op, sf, result, phase, fdata_idx, buf, ok, cyc, waitRet, polls,
                   sleeps, hsfsts, cycle_done, hw, hist, rg>>

SwapNext == JedecRead \/ SwapAgain
SwapSpec == SwapInit /\ [][SwapNext]_vars

\* C19: the value get_SPI_JEDEC_ID returns for a 32-bit FDATA0 is below 2^24
\* and its bytes from the most significant are bytes 0, 1, 2 of FDATA0
\* (manufacturer, device high, device low); the swap applied to the returned
\* value gives the low 24 bits of FDATA0 back, so on 24-bit values the swap is
\* its own inverse.
C19_SwapInvolution ==
    /\ (pc = "done" /\ i = 0) =>
          /\ jid \in 0 .. 16777215
          /\ Shr(jid, 16) = rd[1][1]
          /\ Shr(jid, 8) % 256 = rd[1][2]
          /\ jid % 256 = rd[1][3]
          /\ JedecManu(jid) = rd[1][1]
    /\ (pc = "done" /\ i = 1) =>
          /\ jid = rd[1][1] + 256 * rd[1][2] + 65536 * rd[1][3]
          /\ rd[1][4] = 0 => DwordOf(jid) = rd[1]

\* 0x001720C2 was swapped to 0xC22017 and swapped back
C19_Witness ==
    /\ pc = "done" /\ i = 1 /\ rd = <<<<194, 32, 23, 0>>>> /\ jid = 1515714

\* ------------------------------------------------------------ get_SPI_region
SPI_FLA_SHIFT == 12
SPI_FLA_PAGE_MASK == 4095

\* SPI_REGION: the register name of each region id
SPI_REGION ==
    <<"FREG0_FLASHD", "FREG1_BIOS", "FREG2_ME", "FREG3_GBE", "FREG4_PD", "FREG5",
      "FREG6", "FREG7", "FREG8_EC", "FREG9", "FREG10", "FREG11">>

\* FREG values: 0x0BFF0003, 0, 0x00001FFF (base above limit), 0x1FFF0000, 0x00FF0100
FregSamples == <<201261059, 0, 8191, 536805376, 16711936>>
\* the FREG registers hold the samples in one of five rotations
FregImages == {[r \in RegionIds |-> FregSamples[((r + s) % 5) + 1]] : s \in 0 .. 4}
\* the FREG registers a catalog may define
FregDefined == {RegionIds, 0 .. 4, {1, 8}, {}}
Catalogs ==
    {[NoCatalog EXCEPT !.defined = d, !.freg = f] : d \in FregDefined, f \in FregImages}

\* cs.get_register_field(freg_name, freg, field): RB is bits 12:0, RL bits 28:16
FregField(freg, field) ==
    IF field = "RB" THEN freg % 8192 ELSE Shr(freg, 16) % 8192

\* range_base = get_register_field(freg_name, freg, 'RB') << SPI_FLA_SHIFT
RangeBase(freg) == Shl(FregField(freg, "RB"), SPI_FLA_SHIFT)

\* mutant: the limit is left without the page bits
RangeLimit_NoPageMask(freg) == Shl(FregField(freg, "RL"), SPI_FLA_SHIFT)

\* range_limit = get_register_field(..., 'RL') << SPI_FLA_SHIFT; range_limit |= SPI_FLA_PAGE_MASK
RangeLimit(freg) == BitOr(Shl(FregField(freg, "RL"), SPI_FLA_SHIFT), SPI_FLA_PAGE_MASK)

\* Python's None where numbers are returned: a value no base or limit can have
None == -1
\* (None, None, None)
AbsentRegion == <<None, None, None>>

CallRegion ==
    \E id \in RegionIds :
        /\ pc = "idle"
        /\ op' = [NoOp EXCEPT !.name = "region"]
        /\ rg' = [NoRegion EXCEPT !.id = id]
        /\ pc' = "reg_defined"
        /\ UNCHANGED <<sf, result, phase, i, fdata_idx, buf, ok, jid, cyc, waitRet, polls,
                       sleeps, hsfsts, cycle_done, hw, hist>>

\* get_SPI_region returns: to its caller get_SPI_regions, or the call is over
RegionReturn ==
    IF op.name = "regions" THEN pc' = "regs_ret" /\ UNCHANGED result
    ELSE Finish("returned")

\* `if not self.cs.is_register_defined(freg_name): return (None, None, None)`
RegionDefined ==
    /\ pc = "reg_defined"
    /\ IF rg.id \notin cs.defined
       THEN /\ rg' = [rg EXCEPT !.ret = AbsentRegion]
            /\ RegionReturn
       ELSE /\ pc' = "reg_read"
            /\ UNCHANGED <<rg, result>>
    /\ UNCHANGED <<op, sf, phase, i, fdata_idx, buf, ok, jid, cyc, waitRet, polls,
                   sleeps, hsfsts, cycle_done, hw, hist>>

\* freg = self.cs.read_register(freg_name); return (range_base, range_limit, freg)
RegionRead ==
    /\ pc = "reg_read"
    /\ csrd' = Append(csrd, SPI_REGION[rg.id + 1])
    /\ rg' = [rg EXCEPT !.freg = cs.freg[rg.id],
                        !.range_base = RangeBase(cs.freg[rg.id]),
                        !.range_limit = RangeLimit(cs.freg[rg.id]),
                        !.ret = <<RangeBase(cs.freg[rg.id]), RangeLimit(cs.freg[rg.id]),
                                  cs.freg[rg.id]>>]
    /\ RegionReturn
    /\ UNCHANGED <<op, sf, phase, i, fdata_idx, buf, ok, jid, cyc, waitRet, polls,
                   sleeps, hsfsts, cycle_done, hw, wlog, issued, rd, idleSeen, cleared,
                   nfail, rets>>

\* ------------------------------------------------------------ get_SPI_regions
SPI_REGION_NAMES ==
    <<"Flash Descriptor", "BIOS", "Intel ME", "GBe", "Platform Data", "Flash Region 5",
      "Flash Region 6", "Flash Region 7", "Embedded Controller", "Flash Region 9",
      "Flash Region 10", "Flash Region 11">>

CallRegions ==
    \E all_regions \in BOOLEAN :
        /\ pc = "idle"
        /\ op' = [NoOp EXCEPT !.name = "regions"]
        /\ rg' = [NoRegion EXCEPT !.all_regions = all_regions]
        /\ pc' = "regs_loop"
        /\ UNCHANGED <<sf, result, phase, i, fdata_idx, buf, ok, jid, cyc, waitRet, polls,
                       sleeps, hsfsts, cycle_done, hw, hist>>

\* `for r in SPI_REGION: ... = self.get_SPI_region( r )`, then `return spi_regions`
RegionsLoop ==
    /\ pc = "regs_loop"
    /\ IF rg.r \in RegionIds
       THEN /\ rg' = [rg EXCEPT !.id = rg.r]
            /\ pc' = "reg_defined"
            /\ UNCHANGED result
       ELSE /\ Finish("returned")
            /\ UNCHANGED rg
    /\ UNCHANGED <<op, sf, phase, i, fdata_idx, buf, ok, jid, cyc, waitRet, polls,
                   sleeps, hsfsts, cycle_done, hw, hist>>

\* mutant: the flag all_regions is not looked at
RegionKept_IgnoreAll(all_regions, range_base, range_limit) == range_limit >= range_base

\* `if all_regions or (range_limit >= range_base)`
RegionKept(all_regions, range_base, range_limit) ==
    all_regions \/ range_limit >= range_base

\* (range_base, range_limit, range_size, SPI_REGION_NAMES[r], freg)
RegionEntry(r, range_base, range_limit, freg) ==
    <<range_base, range_limit, range_limit - range_base + 1, SPI_REGION_NAMES[r + 1], freg>>

\* `if range_base is None: continue`, else the region is entered when kept
RegionsRet ==
    /\ pc = "regs_ret"
    /\ IF rg.ret[1] # None /\ RegionKept(rg.all_regions, rg.ret[1], rg.ret[2])
       THEN rg' = [rg EXCEPT
                     !.r = rg.r + 1,
                     !.spi_regions =
                        [k \in (DOMAIN rg.spi_regions) \cup {rg.r} |->
                           IF k = rg.r
                           THEN RegionEntry(rg.r, rg.ret[1], rg.ret[2], rg.ret[3])
                           ELSE rg.spi_regions[k]]]
       ELSE rg' = [rg EXCEPT !.r = rg.r + 1]
    /\ pc' = "regs_loop"
    /\ UNCHANGED <<op, sf, result, phase, i, fdata_idx, buf, ok, jid, cyc, waitRet, polls,
                   sleeps, hsfsts, cycle_done, hw, hist>>

\* no call is running; the catalog is any of Catalogs
RegionInit ==
    /\ pc = "idle" /\ op = NoOp /\ result = "running" /\ phase = "none"
    /\ i = 0 /\ fdata_idx = 0 /\ buf = <<>> /\ ok = TRUE /\ jid = 0
    /\ cyc = NoCycle /\ waitRet = "none" /\ polls = 0 /\ sleeps = 0
    /\ hsfsts = 0 /\ cycle_done = FALSE
    /\ hsfs = 0 /\ fdv = 1
    /\ faddr = 0 /\ hsfc = 0 /\ dbcr = DbcReset /\ fdata = FdataReset /\ ptinx = 0
    /\ sf = NoSfdp /\ inflight = NoCycle
    /\ wlog = <<>> /\ issued = <<>> /\ rd = <<>>
    /\ idleSeen = FALSE /\ cleared = FALSE /\ nfail = 0 /\ rets = <<>>
    /\ cs \in Catalogs /\ rg = NoRegion /\ csrd = <<>>

RegionNext ==
    \/ CallRegion \/ RegionDefined \/ RegionRead
    \/ CallRegions \/ RegionsLoop \/ RegionsRet
RegionSpec == RegionInit /\ [][RegionNext]_vars

\* C20: for a region id in 0..11 whose FREG register the catalog defines,
\* get_SPI_region reads that register once and returns base = RB << 12 and
\* limit = (RL << 12) | 0xFFF of the value read, with the value itself: the low
\* 12 bits of base are 0, those of limit 0xFFF; for a register the catalog
\* does not define it returns (None, None, None) and reads no register.
C20_RegionDecode ==
    /\ (pc = "reg_defined" /\ op.name = "region") => csrd = <<>>
    /\ (pc = "done" /\ op.name = "region") =>
        IF rg.id \in cs.defined
        THEN /\ rg.ret = <<(cs.freg[rg.id] % 8192) * 4096,
                           ((cs.freg[rg.id] \div 65536) % 8192) * 4096 + 4095,
                           cs.freg[rg.id]>>
             /\ rg.ret[1] % 4096 = 0
             /\ rg.ret[2] % 4096 = 4095
             /\ csrd = <<SPI_REGION[rg.id + 1]>>
             /\ cs.freg[rg.id] = 201261059 => (rg.ret[1] = 12288 /\ rg.ret[2] = 12582911)
        ELSE /\ rg.ret = <<None, None, None>>
             /\ csrd = <<>>

\* FREG1_BIOS = 0x0BFF0003 was decoded to base 0x3000, limit 0xBFFFFF
C20_Witness ==
    /\ pc = "done" /\ op.name = "region" /\ rg.id = 1 /\ 1 \in cs.defined
    /\ csrd = <<"FREG1_BIOS">>
    /\ rg.ret = <<12288, 12582911, 201261059>>

\* the ids of the present regions of a catalog that have limit >= base
AvailableRegions(c) ==
    {r \in c.defined :
        ((c.freg[r] \div 65536) % 8192) * 4096 + 4095 >= (c.freg[r] % 8192) * 4096}

\* C21: get_SPI_regions(False) returns exactly the regions whose register the
\* catalog defines and whose limit >= base, get_SPI_regions(True) exactly
\* those whose register is defined; a region with an undefined register is
\* never in the result, and every entry is (base, limit, limit - base + 1,
\* name, raw) of the region's register.
C21_RegionsReturned ==
    op.name = "regions" =>
      /\ (DOMAIN rg.spi_regions) \subseteq cs.defined
      /\ \A r \in DOMAIN rg.spi_regions :
            /\ rg.spi_regions[r][1] = (cs.freg[r] % 8192) * 4096
            /\ rg.spi_regions[r][2] = ((cs.freg[r] \div 65536) % 8192) * 4096 + 4095
            /\ rg.spi_regions[r][3] = rg.spi_regions[r][2] - rg.spi_regions[r][1] + 1
            /\ rg.spi_regions[r][4] = SPI_REGION_NAMES[r + 1]
            /\ rg.spi_regions[r][5] = cs.freg[r]
      /\ pc = "done" =>
            DOMAIN rg.spi_regions =
                IF rg.all_regions THEN cs.defined ELSE AvailableRegions(cs)

\* get_SPI_regions(False) returned some of the present regions and dropped a
\* present one with limit < base
C21_Witness ==
    /\ op.name = "regions" /\ pc = "done" /\ ~rg.all_regions /\ cs.defined = RegionIds
    /\ 1 \in DOMAIN rg.spi_regions /\ rg.spi_regions[1][3] = 12570624
    /\ \E r \in cs.defined : r \notin DOMAIN rg.spi_regions

\* ------------------------------------------------------------ get_SPI_Protected_Range
SPI_MAX_PR_COUNT == 5

\* PRx values, least significant byte first: 0x8BFF0003 (WPE), 0x00200010 (not
\* active), 0x00009FFF (RPE), 0, 0x9FFF8001 (WPE and RPE)
PrSamples ==
    <<<<3, 0, 255, 139>>, <<16, 0, 32, 0>>, <<255, 159, 0, 0>>, <<0, 0, 0, 0>>,
      <<1, 128, 255, 159>>>>
\* the PR registers hold the samples in one of five rotations
PrImages == {[j \in 0 .. 5 |-> PrSamples[((j + s) % 5) + 1]] : s \in 0 .. 4}
\* the catalog defines PR0..PR4, or PR5 too
PrDefined == {0 .. 4, 0 .. 5}
PrCatalogs ==
    {[NoCatalog EXCEPT !.pr_defined = d, !.pr = f] : d \in PrDefined, f \in PrImages}
\* the indexes a caller asks for
PrNums == 0 .. 7

\* cs.get_register_field(pr_name, pr_j, field): PRB is bits 12:0, RPE bit 15,
\* PRL bits 28:16, WPE bit 31
PrField(pr_j, field) ==
    IF field = "PRB" THEN ByteAt(pr_j, 0) + 256 * (ByteAt(pr_j, 1) % 32)
    ELSE IF field = "RPE" THEN Shr(ByteAt(pr_j, 1), 7)
    ELSE IF field = "PRL" THEN ByteAt(pr_j, 2) + 256 * (ByteAt(pr_j, 3) % 32)
    ELSE Shr(ByteAt(pr_j, 3), 7)

\* int(self.cs.get_register_def(pr_name)['offset'], 16): PR0 is at 0x74
PrOffset(j) == 116 + 4 * j

\* 'PR%x' % pr_num
PrName(j) == <<"PR0", "PR1", "PR2", "PR3", "PR4", "PR5">>[j + 1]

NoPr == [pr_num |-> 0, pr_j_reg |-> 0, ret |-> <<>>]

CallPr ==
    \E pr_num \in PrNums :
        /\ pc = "idle"
        /\ op' = [NoOp EXCEPT !.name = "pr"]
        /\ rg' = [NoPr EXCEPT !.pr_num = pr_num]
        /\ pc' = "pr_check"
        /\ UNCHANGED <<sf, result, phase, i, fdata_idx, buf, ok, jid, cyc, waitRet, polls,
                       sleeps, hsfsts, cycle_done, hw, hist>>

\* `if pr_num > SPI_MAX_PR_COUNT`
PrOutOfRange(pr_num) == pr_num > SPI_MAX_PR_COUNT

\* `if pr_num > SPI_MAX_PR_COUNT: return None`
PrCheck ==
    /\ pc = "pr_check"
    /\ IF PrOutOfRange(rg.pr_num) THEN Finish("None")
       ELSE pc' = "pr_lookup" /\ UNCHANGED result
    /\ UNCHANGED <<op, sf, rg, phase, i, fdata_idx, buf, ok, jid, cyc, waitRet, polls,
                   sleeps, hsfsts, cycle_done, hw, hist>>

\* pr_j_reg = int(self.cs.get_register_def(pr_name)['offset'],16): a name the
\* catalog does not have raises KeyError
PrLookup ==
    /\ pc = "pr_lookup"
    /\ csrd' = Append(csrd, <<"def", PrName(rg.pr_num)>>)
    /\ IF rg.pr_num \in cs.pr_defined
       THEN /\ rg' = [rg EXCEPT !.pr_j_reg = PrOffset(rg.pr_num)]
            /\ pc' = "pr_read"
            /\ UNCHANGED result
       ELSE /\ Finish("KeyError")
            /\ UNCHANGED rg
    /\ UNCHANGED <<op, sf, phase, i, fdata_idx, buf, ok, jid, cyc, waitRet, polls,
                   sleeps, hsfsts, cycle_done, hw, wlog, issued, rd, idleSeen, cleared,
                   nfail, rets>>

\* mutant: the limit is ORed with the page bits whatever WPE and RPE are
PrLimit_Always(limit, wpe, rpe) == BitOr(limit, SPI_FLA_PAGE_MASK)

\* `if wpe or rpe: limit |= SPI_FLA_PAGE_MASK`
PrLimit(limit, wpe, rpe) == IF wpe \/ rpe THEN BitOr(limit, SPI_FLA_PAGE_MASK) ELSE limit

\* pr_j = self.cs.read_register(pr_name) ... return (base,limit,wpe,rpe,pr_j_reg,pr_j)
PrRead ==
    /\ pc = "pr_read"
    /\ csrd' = Append(csrd, <<"read", PrName(rg.pr_num)>>)
    /\ LET pr_j == cs.pr[rg.pr_num]
           base == Shl(PrField(pr_j, "PRB"), SPI_FLA_SHIFT)
           limit == Shl(PrField(pr_j, "PRL"), SPI_FLA_SHIFT)
           wpe == 0 # PrField(pr_j, "WPE")
           rpe == 0 # PrField(pr_j, "RPE")
       IN  rg' = [rg EXCEPT !.ret = <<base, PrLimit(limit, wpe, rpe), wpe, rpe,
                                      rg.pr_j_reg, pr_j>>]
    /\ Finish("returned")
    /\ UNCHANGED <<op, sf, phase, i, fdata_idx, buf, ok, jid, cyc, waitRet, polls,
                   sleeps, hsfsts, cycle_done, hw, wlog, issued, rd, idleSeen, cleared,
                   nfail, rets>>

\* no call is running; the catalog is any of PrCatalogs
PrInit ==
    /\ pc = "idle" /\ op = NoOp /\ result = "running" /\ phase = "none"
    /\ i = 0 /\ fdata_idx = 0 /\ buf = <<>> /\ ok = TRUE /\ jid = 0
    /\ cyc = NoCycle /\ waitRet = "none" /\ polls = 0 /\ sleeps = 0
    /\ hsfsts = 0 /\ cycle_done = FALSE
    /\ hsfs = 0 /\ fdv = 1
    /\ faddr = 0 /\ hsfc = 0 /\ dbcr = DbcReset /\ fdata = FdataReset /\ ptinx = 0
    /\ sf = NoSfdp /\ inflight = NoCycle
    /\ wlog = <<>> /\ issued = <<>> /\ rd = <<>>
    /\ idleSeen = FALSE /\ cleared = FALSE /\ nfail = 0 /\ rets = <<>>
    /\ cs \in PrCatalogs /\ rg = NoPr /\ csrd = <<>>

PrNext == CallPr \/ PrCheck \/ PrLookup \/ PrRead
PrSpec == PrInit /\ [][PrNext]_vars

\* C22: get_SPI_Protected_Range ORs the limit with 0xFFF exactly when WPE or
\* RPE is set: with WPE = RPE = 0 the returned limit is PRL << 12, its low 12
\* bits 0; with either set it is (PRL << 12) | 0xFFF; the base is PRB << 12
\* in both cases, and the flags returned are those of the register.
C22_PrLimit ==
    (op.name = "pr" /\ pc = "done" /\ result = "returned") =>
      LET raw == cs.pr[rg.pr_num]
          PRB == raw[1] + 256 * (raw[2] % 32)
          PRL == raw[3] + 256 * (raw[4] % 32)
          WPE == raw[4] >= 128
          RPE == raw[2] >= 128
      IN  /\ rg.ret[1] = PRB * 4096
          /\ rg.ret[3] = WPE /\ rg.ret[4] = RPE
          /\ rg.ret[6] = raw
          /\ (WPE \/ RPE) => rg.ret[2] = PRL * 4096 + 4095
          /\ ~(WPE \/ RPE) => (rg.ret[2] = PRL * 4096 /\ rg.ret[2] % 4096 = 0)
          /\ (rg.ret[2] % 4096 = 4095) <=> (WPE \/ RPE)

\* PR1 = 0x00200010, not active: base 0x10000, limit 0x20000 with low bits 0
C22_Witness ==
    /\ op.name = "pr" /\ pc = "done" /\ result = "returned" /\ rg.pr_num = 1
    /\ cs.pr[1] = <<16, 0, 32, 0>>
    /\ rg.ret = <<65536, 131072, FALSE, FALSE, 120, <<16, 0, 32, 0>>>>

\* ------------------------------------------------------------ disable_BIOS_write_protection
\* the BIOS Control register: the three controls, and whether the firmware has
\* an SMI handler that clears BiosWriteEnable when it is set under BiosLockEnable
BcCatalogs ==
    {[NoCatalog EXCEPT !.ble = b, !.bioswe = w, !.smmbwp = p, !.smi = h] :
        b \in {0, 1}, w \in {0, 1}, p \in {0, 1}, h \in BOOLEAN}

\* cs.get_control(name)
HwGetControl(c, name) ==
    IF name = "BiosLockEnable" THEN c.ble
    ELSE IF name = "BiosWriteEnable" THEN c.bioswe
    ELSE c.smmbwp

\* cs.set_control(w[1], w[2]): BiosLockEnable is write-once; setting
\* BiosWriteEnable under BiosLockEnable raises an SMI
HwSetControl(c, w) ==
    IF w[1] = "BiosWriteEnable"
    THEN [c EXCEPT !.bioswe = w[2],
                   !.smi_pending = (c.ble = 1 /\ c.smi /\ w[2] = 1)]
    ELSE IF w[1] = "BiosLockEnable"
    THEN [c EXCEPT !.ble = IF c.ble = 1 THEN 1 ELSE w[2]]
    ELSE [c EXCEPT !.smmbwp = IF c.smmbwp = 1 THEN 1 ELSE w[2]]

\* the SMI handler clears BiosWriteEnable
BcSmi ==
    /\ cs.smi_pending
    /\ cs' = [cs EXCEPT !.bioswe = 0, !.smi_pending = FALSE]
    /\ UNCHANGED <<drv, hist, hsfs, fdv, faddr, hsfc, dbcr, fdata, inflight, ptinx>>

NoBc == [ble |-> None, bioswe |-> None, smmbwp |-> None]

CallBc ==
    /\ pc = "idle"
    /\ op' = [NoOp EXCEPT !.name = "bc"]
    /\ rg' = NoBc
    /\ pc' = "bc_ble"
    /\ UNCHANGED <<sf, result, phase, i, fdata_idx, buf, ok, jid, cyc, waitRet, polls,
                   sleeps, hsfsts, cycle_done, hw, hist>>

\* local = self.cs.get_control(name), then on to position next
BcGetControl(name, local, next) ==
    /\ csrd' = Append(csrd, <<"ctl", name, HwGetControl(cs, name)>>)
    /\ rg' = [rg EXCEPT ![local] = HwGetControl(cs, name)]
    /\ pc' = next
    /\ UNCHANGED <<op, sf, result, phase, i, fdata_idx, buf, ok, jid, cyc, waitRet, polls,
                   sleeps, hsfsts, cycle_done, hw, wlog, issued, rd, idleSeen, cleared,
                   nfail, rets>>

BcReadBle == pc = "bc_ble" /\ BcGetControl("BiosLockEnable", "ble", "bc_bioswe")
BcReadBioswe == pc = "bc_bioswe" /\ BcGetControl("BiosWriteEnable", "bioswe", "bc_smmbwp")
BcReadSmmbwp ==
    pc = "bc_smmbwp" /\ BcGetControl("SmmBiosWriteProtection", "smmbwp", "bc_branch")

\* mutant: the control is set whatever was read
BcAlreadyEnabled_Never(bioswe) == FALSE

\* `if bioswe == 1`
BcAlreadyEnabled(bioswe) == bioswe = 1

\* `if bioswe == 1: return True`; the other branches only log
BcBranch ==
    /\ pc = "bc_branch"
    /\ IF BcAlreadyEnabled(rg.bioswe) THEN Finish("True")
       ELSE pc' = "bc_set" /\ UNCHANGED result
    /\ UNCHANGED <<op, sf, rg, phase, i, fdata_idx, buf, ok, jid, cyc, waitRet, polls,
                   sleeps, hsfsts, cycle_done, hw, hist>>

\* mutant: the lock is cleared instead
BcSetControl_Lock == <<"BiosLockEnable", 0>>

\* self.cs.set_control('BiosWriteEnable', 1 )
BcSetControl == <<"BiosWriteEnable", 1>>

BcSet ==
    /\ pc = "bc_set"
    /\ wlog' = Append(wlog, BcSetControl)
    /\ cs' = HwSetControl(cs, BcSetControl)
    /\ pc' = "bc_reread"
    /\ UNCHANGED <<op, sf, rg, result, phase, i, fdata_idx, buf, ok, jid, cyc, waitRet,
                   polls, sleeps, hsfsts, cycle_done, hsfs, fdv, faddr, hsfc, dbcr, fdata,
                   inflight, ptinx, issued, rd, idleSeen, cleared, nfail, rets, csrd>>

\* bioswe = self.cs.get_control('BiosWriteEnable' ) ... return (bioswe==1)
BcReread ==
    /\ pc = "bc_reread"
    /\ csrd' = Append(csrd, <<"ctl", "BiosWriteEnable", HwGetControl(cs, "BiosWriteEnable")>>)
    /\ rg' = [rg EXCEPT !.bioswe = HwGetControl(cs, "BiosWriteEnable")]
    /\ Finish(IF HwGetControl(cs, "BiosWriteEnable") = 1 THEN "True" ELSE "False")
    /\ UNCHANGED <<op, sf, phase, i, fdata_idx, buf, ok, jid, cyc, waitRet, polls,
                   sleeps, hsfsts, cycle_done, hw, wlog, issued, rd, idleSeen, cleared,
                   nfail, rets>>

\* no call is running; the BIOS Control register is any of BcCatalogs
BcInit ==
    /\ pc = "idle" /\ op = NoOp /\ result = "running" /\ phase = "none"
    /\ i = 0 /\ fdata_idx = 0 /\ buf = <<>> /\ ok = TRUE /\ jid = 0
    /\ cyc = NoCycle /\ waitRet = "none" /\ polls = 0 /\ sleeps = 0
    /\ hsfsts = 0 /\ cycle_done = FALSE
    /\ hsfs = 0 /\ fdv = 1
    /\ faddr = 0 /\ hsfc = 0 /\ dbcr = DbcReset /\ fdata = FdataReset /\ ptinx = 0
    /\ sf = NoSfdp /\ inflight = NoCycle
    /\ wlog = <<>> /\ issued = <<>> /\ rd = <<>>
    /\ idleSeen = FALSE /\ cleared = FALSE /\ nfail = 0 /\ rets = <<>>
    /\ cs \in BcCatalogs /\ rg = NoBc /\ csrd = <<>>

BcNext ==
    \/ CallBc \/ BcReadBle \/ BcReadBioswe \/ BcReadSmmbwp \/ BcBranch \/ BcSet
    \/ BcReread \/ BcSmi
BcSpec == BcInit /\ [][BcNext]_vars

\* C23 as stated: every call of disable_BIOS_write_protection sets
\* BiosWriteEnable to 1, whatever BLE, BIOSWE and SMM_BWP were, re-reads it
\* and returns true exactly when it reads back as 1.
C23_SetsOnEveryCall ==
    (op.name = "bc" /\ pc = "done") =>
      /\ wlog = <<<<"BiosWriteEnable", 1>>>>
      /\ Len(csrd) = 4
      /\ csrd[4][2] = "BiosWriteEnable"
      /\ (result = "True") <=> (csrd[4][3] = 1)

\* C23, amended: a call that first reads BiosWriteEnable as 1 returns true
\* without setting anything; every other call, whatever BLE and SMM_BWP are,
\* sets BiosWriteEnable to 1 once, re-reads it and returns true exactly when
\* it reads back as 1.
C23_SetsUnlessEnabled ==
    (op.name = "bc" /\ pc = "done") =>
      /\ Len(csrd) >= 3
      /\ csrd[2][2] = "BiosWriteEnable"
      /\ result \in {"True", "False"}
      /\ IF csrd[2][3] = 1
         THEN wlog = <<>> /\ Len(csrd) = 3 /\ result = "True"
         ELSE /\ wlog = <<<<"BiosWriteEnable", 1>>>>
              /\ Len(csrd) = 4
              /\ csrd[4][2] = "BiosWriteEnable"
              /\ (result = "True") <=> (csrd[4][3] = 1)

\* under BLE and SMM_BWP the control was set, read back as 0, and the call
\* returned false
C23_Witness ==
    /\ op.name = "bc" /\ pc = "done" /\ result = "False"
    /\ csrd[1][3] = 1 /\ csrd[2][3] = 0 /\ csrd[3][3] = 1
    /\ wlog = <<<<"BiosWriteEnable", 1>>>>
    /\ csrd[4] = <<"ctl", "BiosWriteEnable", 0>>

\* C24: disable_BIOS_write_protection never writes BiosLockEnable or
\* SmmBiosWriteProtection: the only control it sets is BiosWriteEnable, only
\* to 1, and the two other controls keep the values they were read with.
C24_OnlyBiosWriteEnable ==
    op.name = "bc" =>
      /\ \A k \in 1 .. Len(wlog) : wlog[k] = <<"BiosWriteEnable", 1>>
      /\ Len(csrd) >= 1 => cs.ble = csrd[1][3]
      /\ Len(csrd) >= 3 => cs.smmbwp = csrd[3][3]

\* a locked configuration after the set: the lock and the SMM protection are
\* as they were
C24_Witness ==
    /\ op.name = "bc" /\ pc = "bc_reread"
    /\ wlog = <<<<"BiosWriteEnable", 1>>>>
    /\ cs.ble = 1 /\ cs.smmbwp = 1 /\ cs.bioswe = 1


\* ------------------------------------------------------------ get_SPI_SFDP properties
\* the dword PTDATA shows after c << 14 was written to PTINX
HeaderDword(c) == PtData(op.parts, Shl(c, 14))

\* the values written to PTINX with component bit c, in order
PtinxWritesOf(c) ==
    SelectSeq(ValuesWritten(wlog, "PTINX"), LAMBDA v : Shr(v, 14) = c)

\* C25: in get_SPI_SFDP the components 0 and 1 are scanned in that order; the
\* SFDP structures of a component are processed exactly when the dword read
\* from PTDATA after writing c << 14 to PTINX is 0x50444653; when it differs
\* nothing more of that component is accessed and the scan goes on with the
\* next component.
C25_HeaderGate ==
    /\ [](op.name = "sfdp" =>
            /\ pc \notin {"sfdp_comp", "sfdp_sig", "done"} =>
                  /\ sf.component \in {0, 1}
                  /\ HeaderDword(sf.component) = <<83, 70, 68, 80>>
            /\ \A c \in {0, 1} :
                  /\ HeaderDword(c) # <<83, 70, 68, 80>> => Len(PtinxWritesOf(c)) <= 1
                  /\ sf.component < c => PtinxWritesOf(c) = <<>>
                  /\ (pc = "done" /\ result = "returned") =>
                        /\ Len(PtinxWritesOf(c)) >= 1
                        /\ PtinxWritesOf(c)[1] = c * 16384
                        /\ HeaderDword(c) = <<83, 70, 68, 80>> =>
                              Len(PtinxWritesOf(c)) >= 3)
    /\ [][(op.name = "sfdp" /\ pc = "sfdp_sig" /\ pc' # "sfdp_sig") =>
            /\ ptinx = sf.component * 16384
            /\ RegFromEnd(wlog, 0) = "PTINX"
            /\ IF HeaderDword(sf.component) = <<83, 70, 68, 80>>
               THEN /\ pc' = "sfdp_ver"
                    /\ sf'.component = sf.component
                    /\ wlog' = Append(wlog, <<"PTINX", sf.component * 16384 + 4>>)
               ELSE /\ pc' = "sfdp_comp"
                    /\ sf'.component = sf.component + 1
                    /\ UNCHANGED <<wlog, ptinx, faddr, hsfc, dbcr, rd, issued>>]_vars

\* component 0 has no SFDP header and only its selector was written;
\* component 1 has one and is being processed
C25_Witness ==
    /\ op.name = "sfdp" /\ pc = "sfdp_par" /\ sf.component = 1
    /\ HeaderDword(0) = <<255, 255, 255, 255>>
    /\ HeaderDword(1) = <<83, 70, 68, 80>>
    /\ ValuesWritten(wlog, "PTINX") = <<0, 16384, 16388, 20480>>


\* num_of_param_headers the component's version dword gives
HeadersOf(c) == ByteAt(PtData(op.parts, Shl(c, 14) + 4), 2) + 1

\* the component has a header, more than one parameter header, and the
\* catalog has HSFS.FCYCLE
CycleWanted(c) ==
    HeaderDword(c) = <<83, 70, 68, 80>> /\ HeadersOf(c) > 1 /\ op.fcycle

\* the SFDP cycles are as many as the components up to c that want one
CyclesUpTo(c) == Len(issued) = Cardinality({d \in {0, 1} : d <= c /\ CycleWanted(d)})

\* the six writes before the command byte: FDATA12..15 with 0, FADDR 0, DBC 0x3F
SfdpCyclePrologue(w) ==
    /\ Len(w) >= 6
    /\ SubSeq(w, Len(w) - 5, Len(w)) =
         <<<<"FDATA12", 0>>, <<"FDATA13", 0>>, <<"FDATA14", 0>>, <<"FDATA15", 0>>,
           <<"FADDR", 0>>, <<"DBC", 63>>>>

\* the cycles get_SPI_SFDP issues have dbc-1 = 0x3F and FADDR = 0, each after
\* FDATA12..FDATA15 were written with 0
SfdpCycleShape ==
    op.name = "sfdp" =>
      /\ \A k \in 1 .. Len(issued) :
            issued[k] = [cmd |-> HSFCTL_SFDP_CYCLE, dbc |-> 63, addr |-> 0]
      /\ pc = "send_cmd" => SfdpCyclePrologue(wlog)
      /\ (pc \in WaitPcs \/ pc = "cycle_ret") =>
            /\ RegFromEnd(WritesBeforeClear, 0) = "HSFC"
            /\ ValFromEnd(WritesBeforeClear, 0) = HSFCTL_SFDP_CYCLE
            /\ SfdpCyclePrologue(SubSeq(WritesBeforeClear, 1, Len(WritesBeforeClear) - 1))

\* C26 as stated: an SFDP cycle is issued for a component exactly when its
\* header was recognised, num_param_headers > 1 and the catalog has
\* HSFS.FCYCLE; it has dbc-1 = 0x3F and FADDR = 0 and follows the writes of 0
\* to FDATA12..FDATA15.
C26_CycleIffWanted ==
    /\ SfdpCycleShape
    /\ (op.name = "sfdp" /\ pc \in {"sfdp_tab", "sfdp_row"}) => CyclesUpTo(sf.component)
    /\ (op.name = "sfdp" /\ pc = "done") => CyclesUpTo(sf.component)

\* C26, amended: an SFDP cycle is issued for a component exactly when its
\* header was recognised, num_param_headers > 1, the catalog has HSFS.FCYCLE
\* and HSFS.FDV is not 0; with FDV = 0 the call is aborted by SpiRuntimeError
\* before any FDATA write.  The cycle has dbc-1 = 0x3F and FADDR = 0 and
\* follows the writes of 0 to FDATA12..FDATA15.
C26_CycleIffWantedAndValid ==
    /\ SfdpCycleShape
    /\ (op.name = "sfdp" /\ pc \in {"sfdp_clr", "send_faddr", "send_dbc", "send_cmd",
                                    "cycle_ret", "sfdp_hdr"} \cup WaitPcs) =>
          CycleWanted(sf.component) /\ fdv # 0
    /\ (op.name = "sfdp" /\ pc \in {"sfdp_tab", "sfdp_row"}) =>
          /\ CyclesUpTo(sf.component)
          /\ CycleWanted(sf.component) => fdv # 0
    /\ (op.name = "sfdp" /\ pc = "done" /\ result = "returned") =>
          /\ CyclesUpTo(1)
          /\ (CycleWanted(0) \/ CycleWanted(1)) => fdv # 0
    /\ (op.name = "sfdp" /\ pc = "done" /\ result = "raised") =>
          /\ fdv = 0 /\ CycleWanted(sf.component)
          /\ issued = <<>>
          /\ \A k \in 1 .. Len(wlog) : wlog[k][1] = "PTINX"

\* both components had their SFDP cycle
C26_Witness ==
    /\ op.name = "sfdp" /\ pc = "done" /\ result = "returned"
    /\ CycleWanted(0) /\ CycleWanted(1)
    /\ Len(issued) = 2
    /\ WritesTo(wlog, "FDATA12") = 2 /\ WritesTo(wlog, "FDATA15") = 2


\* param1_length the component's first parameter header gives
Param1LengthOf(c) == ByteAt(PtData(op.parts, BitOr(Shl(c, 14), 4096)), 3)

\* the PTINX values written for the table of component c (stratum 0x2000)
TableWrites(c) == SelectSeq(PtinxWritesOf(c), LAMBDA v : Shr(v, 12) % 4 = 2)

Min(a, b) == IF a < b THEN a ELSE b

\* component c wanted no SFDP cycle, or its cycle succeeded
CycleOk(c) ==
    CycleWanted(c) =>
      LET k == Cardinality({d \in {0, 1} : d <= c /\ CycleWanted(d)})
      IN  k <= Len(rets) /\ rets[k]

\* C27 as stated: for every component with a valid SFDP header the call
\* performs exactly param1_length PTINX-write / PTDATA-read pairs at stratum
\* 0x2000, at offsets increasing by 4.
C27_Param1LengthRows ==
    (op.name = "sfdp" /\ pc = "done" /\ result = "returned") =>
      \A c \in {0, 1} :
        HeaderDword(c) = <<83, 70, 68, 80>> =>
          /\ Len(TableWrites(c)) = Param1LengthOf(c)
          /\ \A k \in 1 .. Len(TableWrites(c)) :
                TableWrites(c)[k] = c * 16384 + 8192 + 4 * (k - 1)

\* C27, amended: the table of a component is read only when its header is
\* valid, sfdp.xml is there and the component's SFDP cycle, if one was issued,
\* succeeded; then the pairs are min(param1_length, children of the root of
\* sfdp.xml), at (c << 14) | 0x2000 and on by 4; otherwise there is none.
C27_RowsBoundedBySchema ==
    op.name = "sfdp" =>
      \A c \in {0, 1} :
        /\ \A k \in 1 .. Len(TableWrites(c)) :
              TableWrites(c)[k] = c * 16384 + 8192 + 4 * (k - 1)
        /\ Len(TableWrites(c)) <= Param1LengthOf(c)
        /\ TableWrites(c) # <<>> =>
              /\ HeaderDword(c) = <<83, 70, 68, 80>>
              /\ Len(TableWrites(c)) <= op.xml
        /\ (pc = "done" /\ result = "returned") =>
              Len(TableWrites(c)) =
                IF HeaderDword(c) = <<83, 70, 68, 80>> /\ op.xml >= 0 /\ CycleOk(c)
                THEN Min(Param1LengthOf(c), op.xml)
                ELSE 0

\* param1_length is 3 and sfdp.xml has 2 children: 2 pairs
C27_Witness ==
    /\ op.name = "sfdp" /\ pc = "done" /\ result = "returned"
    /\ HeaderDword(0) = <<83, 70, 68, 80>>
    /\ Param1LengthOf(0) = 3 /\ op.xml = 2
    /\ TableWrites(0) = <<8192, 8196>>


\* C28: every value get_SPI_SFDP writes to PTINX respects the index layout:
\* bit 14 is the component being scanned, bits 13:12 a stratum in {0, 1, 2},
\* bits 11:0 a dword-aligned byte offset, no bit above 14 is set; advancing
\* the offset by 4 never carries into the stratum or component bits.
C28_PtinxLayout ==
    /\ [](op.name = "sfdp" =>
            \A k \in 1 .. Len(wlog) :
              wlog[k][1] = "PTINX" =>
                /\ wlog[k][2] \in 0 .. 32767
                /\ Shr(wlog[k][2], 12) % 4 \in {0, 1, 2}
                /\ wlog[k][2] % 4 = 0)
    /\ [][(op.name = "sfdp" /\ wlog' # wlog /\ RegFromEnd(wlog', 0) = "PTINX") =>
            /\ ptinx' = ValFromEnd(wlog', 0)
            /\ Shr(ptinx', 14) = sf.component
            /\ pc = "sfdp_comp" => ptinx' = sf.component * 16384
            /\ pc = "sfdp_sig" => ptinx' = sf.component * 16384 + 4
            /\ pc = "sfdp_ver" => ptinx' = sf.component * 16384 + 4096
            /\ pc = "sfdp_row" =>
                  /\ ptinx' = sf.component * 16384 + 8192 + 4 * sf.count
                  /\ Shr(ptinx', 12) % 4 = 2
                  /\ sf.count > 0 => ptinx' = ptinx + 4]_vars

\* the last row of a table of 255 dwords of component 1: 0x63F8
C28_Witness ==
    /\ op.name = "sfdp" /\ sf.component = 1 /\ sf.count = 255
    /\ RegFromEnd(wlog, 0) = "PTINX" /\ ValFromEnd(wlog, 0) = 25592
    /\ ptinx = 25592


\* the addresses the call hands to _send_spi_cycle, in order, as far as it got
RequestedAddresses ==
    LET n == Len(ValuesWritten(wlog, "FADDR"))
        step == IF op.name = "read" THEN (IF op.n >= 64 THEN 64 ELSE 4)
                ELSE IF op.name = "write" THEN 4
                ELSE 0
        base == IF op.name \in {"read", "write", "erase"} THEN op.fla ELSE 0
    IN  [k \in 1 .. n |-> base + (k - 1) * step]

\* C29: every value written to FADDR is the requested address ANDed with the
\* FADDR mask (its low 27 bits), the chunk addresses fla + i*DBC of read_spi
\* and write_spi included: no bit outside the field is written, and a chunk
\* address past the field wraps.
C29_FaddrMasked ==
    LET w == ValuesWritten(wlog, "FADDR")
    IN  /\ \A k \in 1 .. Len(w) :
              /\ w[k] \in 0 .. 134217727
              /\ w[k] = RequestedAddresses[k] % 134217728
        /\ w # <<>> => faddr = w[Len(w)]
        /\ pc = "send_dbc" => faddr = cyc.fla % 134217728

\* read_spi(0x7FFFFC0, 128): the second chunk, at 0x8000000, went to FADDR as 0
C29_Witness ==
    /\ op.name = "read" /\ op.fla = 134217664 /\ op.n = 128
    /\ pc = "done" /\ result = "returned"
    /\ ValuesWritten(wlog, "FADDR") = <<134217664, 0>>
    /\ RequestedAddresses = <<134217664, 134217728>>


\* C30: without HSFS.FCYCLE in the catalog get_SPI_JEDEC_ID returns False
\* with FDV not read, no cycle issued and no register written, and
\* get_SPI_JEDEC_ID_decoded returns (False, 0, 0).
C30_NoFcycle ==
    (op.name \in {"jedec", "jedec_decoded"} /\ ~op.fcycle) =>
      /\ pc \in {"jedec_dec", "done"}
      /\ csrd = <<>> /\ wlog = <<>> /\ issued = <<>> /\ rd = <<>>
      /\ faddr = 0 /\ hsfc = 0 /\ dbcr = DbcReset /\ fdata = FdataReset /\ ptinx = 0
      /\ op.name = "jedec" => (pc = "done" /\ result = "False")
      /\ op.name = "jedec_decoded" =>
            /\ jid = False
            /\ pc = "done" =>
                  /\ result = "returned"
                  /\ Len(rg.ret) = 3
                  /\ rg.ret[1] = False /\ rg.ret[2] = 0 /\ rg.ret[3] = 0

\* get_SPI_JEDEC_ID_decoded returned (False, 0, 0) with nothing written
C30_Witness ==
    /\ op.name = "jedec_decoded" /\ ~op.fcycle /\ pc = "done" /\ result = "returned"
    /\ rg.ret = <<False, 0, 0>>
    /\ wlog = <<>> /\ csrd = <<>>


\* ------------------------------------------------------------ failures of the wait
\* read_spi or write_spi is about to write FADDR, the DBC byte or the command
BulkSending == op.name \in {"read", "write"} /\ pc \in {"send_faddr", "send_dbc", "send_cmd"}

\* C31 as stated: whenever read_spi or write_spi writes FADDR or the command
\* byte of a chunk the controller is idle (SCIP = 0), also after a chunk whose
\* wait ran out of polls.
C31_IdleAtEveryChunk == BulkSending => ~Busy(hsfs)

\* C31, amended: the registers of a chunk are written on an idle controller
\* whenever the wait before them (the pre-flight wait or the wait of the
\* chunk before) saw SCIP = 0; a chunk that follows a wait that ran out of
\* polls is sent without another wait, and only then may the controller still
\* be busy: the chunk before was reported as failed.
C31_IdleUnlessTimedOut ==
    BulkSending =>
      /\ idleSeen => ~Busy(hsfs)
      /\ issued = <<>> => idleSeen
      /\ ~idleSeen =>
            /\ Len(issued) >= 1
            /\ Len(rets) = Len(issued)
            /\ ~rets[Len(rets)]
            /\ ~cleared

\* the second chunk of read_spi is being sent while the first, timed out,
\* is still running
C31_Witness ==
    /\ op.name = "read" /\ pc = "send_cmd" /\ Busy(hsfs)
    /\ Len(issued) = 1 /\ rets = <<FALSE>> /\ ~idleSeen
    /\ inflight.cmd = HSFCTL_READ_CYCLE


\* the registers of a cycle: none of them is among the writes w
NoCycleWrites(w) ==
    \A k \in 1 .. Len(w) : w[k][1] \notin {"FADDR", "DBC", "HSFC", "FDATA0"}

\* C32: when the pre-flight wait of read_spi, write_spi or erase_spi_block
\* fails (controller still busy, or error bits still set after the clear) the
\* call returns None and issues no cycle: FADDR, HSFC and FDATA0 are not
\* written.
C32_PreflightFailure ==
    /\ []((op.name \in PreflightOps /\ pc = "done" /\ result = "None") =>
            /\ issued = <<>> /\ rets = <<>> /\ rd = <<>>
            /\ NoCycleWrites(wlog)
            /\ ~cycle_done
            /\ faddr = 0 /\ hsfc = 0 /\ dbcr = DbcReset
            /\ wlog \in {<<>>, <<<<"HSFS", HSFSTS_CLEAR>>>>}
            /\ wlog = <<>> <=> ~idleSeen)
    /\ []((op.name \in PreflightOps /\ pc \in WaitPcs \cup {"preflight_ret"}
           /\ waitRet = "preflight") => (issued = <<>> /\ NoCycleWrites(wlog)))
    /\ [][(op.name \in PreflightOps /\ pc = "preflight_ret" /\ pc' # pc) =>
            IF cycle_done
            THEN pc' # "done" /\ result' = "running"
            ELSE pc' = "done" /\ result' = "None" /\ UNCHANGED <<wlog, issued, faddr, hsfc>>]_vars

\* erase_spi_block found the controller idle, cleared the status, an error
\* bit was still set: None, with the clear as its only write
C32_Witness ==
    /\ op.name = "erase" /\ pc = "done" /\ result = "None"
    /\ idleSeen /\ wlog = <<<<"HSFS", HSFSTS_CLEAR>>>>
    /\ issued = <<>>


\* C33: while get_SPI_SFDP enumerates the additional parameter headers, every
\* data register it reads, FDATA(2+2i) and FDATA(2+2i+1) for i in
\* 1..num_param_headers-1, has an index in 0..15, whatever header count the
\* flash reports.
C33_HeaderRegsInRange ==
    op.name = "sfdp" =>
      /\ (pc = "sfdp_hdr" /\ i < sf.nph) =>
            (HeaderReg(i) \in 0 .. 15 /\ HeaderReg(i) + 1 \in 0 .. 15)
      /\ result # "AttributeError"


\* C34: get_SPI_Protected_Range reads a PRx register only for an index in
\* 0..4: for every index greater than 4 it returns None without looking up or
\* reading any register.
C34_IndexAbove4 ==
    (op.name = "pr" /\ rg.pr_num > 4) =>
      /\ csrd = <<>>
      /\ pc \in {"pr_check", "done"}
      /\ pc = "done" => result = "None"


\* C35: get_SPI_JEDEC_ID does not pass on a failed JEDEC cycle: after it,
\* FDATA0 is still read and its byte-swapped value returned; False is
\* returned only when the catalog has no HSFS.FCYCLE.
C35_FailureNotPropagated ==
    (op.name = "jedec" /\ pc = "done") =>
      /\ (result = "False") <=> ~op.fcycle
      /\ (op.fcycle /\ fdv # 0) =>
            /\ result = "returned"
            /\ Len(rets) = 1 /\ Len(issued) = 1 /\ Len(rd) = 1
            /\ jid = rd[1][1] * 65536 + rd[1][2] * 256 + rd[1][3]
            /\ jid # False
      /\ (op.fcycle /\ fdv = 0) => (result = "raised" /\ rd = <<>>)

\* the JEDEC cycle failed and the id was returned all the same
C35_Witness ==
    /\ op.name = "jedec" /\ op.fcycle /\ pc = "done" /\ result = "returned"
    /\ rets = <<FALSE>> /\ Len(rd) = 1
    /\ jid = rd[1][1] * 65536 + rd[1][2] * 256 + rd[1][3]
====
